---- MODULE Spec2Model ----
(***************************************************************************)
(* compressarr: the job scheduler (JobManager, src/src/jobManager.ts) and  *)
(* the job runner (the REGISTER_JOB / UNREGISTER_JOB handlers of Server,   *)
(* src/src/server.ts), coupled through the synchronous event bus           *)
(* (CompressarrAPI, an EventEmitter).                                      *)
(*                                                                         *)
(* A bus handler runs to completion inside the emit() that triggered it,   *)
(* so every action below is one whole handler, including every handler it  *)
(* triggers synchronously.  The only suspension point of the program is    *)
(* the `await jobActionInstance.start(job)` of the runner; the settling of *)
(* that promise is the action StartSettles.                                *)
(***************************************************************************)
EXTENDS Integers, Sequences, FiniteSets, Bags, TLC

(***************************************************************************)
(* Bounds of the model.                                                    *)
(***************************************************************************)
\* suspended invocations of the REGISTER_JOB handler at any one time
MaxTasks == 2
\* largest value of the `instances` option
MaxInstances == 2
\* largest number of configured job action instances
MaxActions == 2
\* suspended invocations at any one time when library roots are nested
MaxNestedTasks == 1
\* suspended invocations at any one time when a Library publishes the events
MaxLibraryTasks == 1
\* handlers of a Library awaiting the media probe at any one time
MaxProbes == 1
\* plugin packages on disk
MaxPlugins == 2
\* entries of config.jobActions
MaxJobActions == 2
\* entries of config.libraries
MaxLibraries == 2
\* segments given to one call of User.setStoragePath
MaxSegments == 2

(***************************************************************************)
(* Paths.  A path is a sequence of segments; a segment is the pair of its  *)
(* stem and its extension, which is what path.parse() separates.           *)
(***************************************************************************)
Seg(stem, ext) == [stem |-> stem, ext |-> ext]

\* path.join(a, b) of two normalised paths
join(a, b) == a \o b

\* path.parse(p).dir and path.parse(p).name
ParseDir(p) == SubSeq(p, 1, Len(p) - 1)
ParseName(p) == p[Len(p)].stem

\* User.jobPath(): join(storagePath(), 'jobs'), with the storage root /s
JobRoot == <<Seg("s", ""), Seg("jobs", "")>>

\* the library roots and the media paths (relative to a root) of the events
LibraryPaths == {<<Seg("lib", "")>>}
MediaPaths == {<<Seg("x", ".mp4")>>, <<Seg("y", ".mp4")>>}

\* the value of an unset optional path (Job.tempSrcPath === undefined)
Undefined == <<>>

\* the argument an action passes to Job.setPath when it rewrites the source
ArtifactName == <<Seg("x-1", ".mkv")>>

(***************************************************************************)
(* Maps.  A Map without order is a function; `jobs`, whose iteration order *)
(* the scheduler uses, is a sequence of entries in insertion order.        *)
(***************************************************************************)
EmptyMap == [k \in {} |-> k]
MapHas(m, k) == k \in DOMAIN m
MapSet(m, k, v) == [x \in (DOMAIN m) \cup {k} |-> IF x = k THEN v ELSE m[x]]
MapDelete(m, k) == [x \in (DOMAIN m) \ {k} |-> m[x]]

JobsKeys(js) == {js[i].key : i \in 1..Len(js)}
JobsHas(js, k) == k \in JobsKeys(js)
\* a set that leaves the value of an existing key as it was
JobsSetKeepFirst(js, k, cfg) ==
    IF JobsHas(js, k) THEN js ELSE Append(js, [key |-> k, cfg |-> cfg])

\* Map.prototype.set: an existing key keeps its position, a new key goes last
JobsSet(js, k, cfg) ==
    IF JobsHas(js, k)
    THEN [i \in 1..Len(js) |-> IF js[i].key = k THEN [js[i] EXCEPT !.cfg = cfg] ELSE js[i]]
    ELSE Append(js, [key |-> k, cfg |-> cfg])
\* the number of entries that precede the entry of key k
JobsAhead(js, k) == Cardinality({i \in 1..Len(js) : \E j \in (i + 1)..Len(js) : js[j].key = k})
JobsDelete(js, k) == SelectSeq(js, LAMBDA e : e.key # k)

(***************************************************************************)
(* Job (src/unnamed/part_002, class Job).                                  *)
(***************************************************************************)
\* new Job(logger, jobConfig)
NewJob(config) ==
    [name |-> config.name, srcPath |-> config.srcPath, tempPath |-> config.tempPath,
     tempSrcPath |-> Undefined, tempDestPath |-> Undefined]

\* no Job has been constructed
NoJob == <<>>

getSrcPath(job) == IF job.tempSrcPath # Undefined THEN job.tempSrcPath ELSE job.srcPath

\* Job.setPath: the previous temporary source is removed, both temporary paths
\* are forgotten, then the temporary source is set
setPath(job, path) ==
    [job EXCEPT !.tempSrcPath = join(job.tempPath, path), !.tempDestPath = Undefined]

(***************************************************************************)
(* Identifiers.  A string is the sequence of its tokens, the dot being a   *)
(* token of its own, so that `${plugin}.${name}` is a concatenation and    *)
(* split('.') has to find the dots again.                                  *)
(***************************************************************************)
\* the names of the plugin packages on disk
PluginNames == <<"compressarr-a", "compressarr-b", "compressarr-c", "compressarr-d">>

PluginIdentifiers == { <<PluginNames[i]>> : i \in 1..MaxPlugins }

\* a scope directory of npm
Scopes == {<<"@scope">>}

\* `${scopeDirectory}/${name}`
Scoped(scopeDirectory, name) == scopeDirectory \o <<"/">> \o name

\* the names a package.json or a directory may carry: the plugin identifiers,
\* bare or under a scope, and a name that is not the name of a plugin
PackageNames ==
    PluginIdentifiers \cup { Scoped(s, p) : s \in Scopes, p \in PluginIdentifiers }
        \cup {<<"other-plugin">>}

\* PluginManager.isQualifiedPluginIdentifier, PLUGIN_IDENTIFIER_PATTERN.test:
\* an optional scope and slash, then one token that begins with compressarr-
isQualifiedPluginIdentifier(identifier) ==
    LET name == IF /\ Len(identifier) = 3
                   /\ <<identifier[1]>> \in Scopes
                   /\ identifier[2] = "/"
                THEN <<identifier[3]>> ELSE identifier
    IN /\ Len(name) = 1
       /\ \E i \in 1..Len(PluginNames) : name[1] = PluginNames[i]

\* the action names an initializer may register
JobActionNames == { <<"enc">> }

\* an initializer may register every name, and one of them twice
MaxRegistrations == Cardinality(JobActionNames) + 1

\* identifier.indexOf('.') === -1
NoDot(identifier) == \A k \in 1..Len(identifier) : identifier[k] # "."

IndexOfDot(identifier) ==
    CHOOSE k \in 1..Len(identifier) :
        identifier[k] = "." /\ \A j \in 1..(k - 1) : identifier[j] # "."

RECURSIVE Split(_)
\* identifier.split('.')
Split(identifier) ==
    IF NoDot(identifier) THEN <<identifier>>
    ELSE <<SubSeq(identifier, 1, IndexOfDot(identifier) - 1)>>
         \o Split(SubSeq(identifier, IndexOfDot(identifier) + 1, Len(identifier)))

\* `${pluginIdentifier}.${name}`
Qualified(pluginIdentifier, name) == pluginIdentifier \o <<".">> \o name

\* PluginManager.getJobActionName, and what it would be if it kept the identifier
getJobActionNameWhole(identifier) == identifier

getJobActionName(identifier) ==
    IF NoDot(identifier) THEN identifier ELSE Split(identifier)[2]

\* PluginManager.getPluginIdentifier
getPluginIdentifier(identifier) == Split(identifier)[1]

\* the identifiers a config entry may carry
JobActionIdentifiers ==
    JobActionNames \cup { Qualified(p, n) : p \in PluginIdentifiers, n \in JobActionNames }

(***************************************************************************)
(* Plugin (src/src/plugin.ts, class Plugin).  The Plugin objects live in   *)
(* `objects`, by identifier: the registry and the name index hold          *)
(* references to them.  The handlers below thread the record               *)
(*   [plugins, pluginIdentifierTranslation, jobActionToPluginMap,          *)
(*    currentInitializingPlugin, objects, thrown, caught]                  *)
(* whose field `thrown` tells whether the call raised an error and whose   *)
(* field `caught` tells whether a catch block has run.                     *)
(***************************************************************************)
\* What a package.json may hold: whether the file is there and parses, its
\* name (or none), whether keywords includes 'compressarr-plugin', whether
\* engines.compressarr is a non-empty range, and whether peerDependencies is
\* absent, lacks the host or has a non-empty range for the host.  The
\* packages are those of a plugin with any engines and peerDependencies, and
\* those that lack one thing: the file, the name, the prefix or the keyword.
PluginPackageJSONs ==
    [readable : {TRUE}, name : PackageNames \ {<<"other-plugin">>}, keywords : {TRUE},
     engines : BOOLEAN, peerDependencies : {"none", "other", "host"}]

PackageJSONs ==
    PluginPackageJSONs
        \cup [readable : {FALSE}, name : {Undefined}, keywords : {FALSE},
              engines : {FALSE}, peerDependencies : {"none"}]
        \cup [readable : {TRUE}, name : {Undefined, <<"other-plugin">>}, keywords : {TRUE},
              engines : {TRUE}, peerDependencies : {"none"}]
        \cup [readable : {TRUE}, name : PackageNames \ {<<"other-plugin">>},
              keywords : {FALSE}, engines : {TRUE}, peerDependencies : {"none"}]

\* the constructor of Plugin: packageJSON.engines.compressarr after it
Engines(packageJSON) ==
    IF packageJSON.peerDependencies # "none" /\ ~packageJSON.engines
    THEN packageJSON.peerDependencies = "host"
    ELSE packageJSON.engines

\* new Plugin(name, path, packageJSON, scope); loadContext tells whether the
\* load context is still held, engines whether it has engines.compressarr
NewPlugin(identifier, path, packageJSON) ==
    [identifier |-> identifier, pluginPath |-> path, disabled |-> FALSE,
     loadContext |-> TRUE, engines |-> Engines(packageJSON),
     pluginInitializer |-> FALSE, registeredJobActions |-> {}]

Throw(st) == [st EXCEPT !.thrown = TRUE]

Caught(st) == [st EXCEPT !.thrown = FALSE, !.caught = TRUE]

\* Plugin.registerJobAction
PluginRegisterJobAction(st, identifier, name) ==
    IF name \in st.objects[identifier].registeredJobActions
    THEN Throw(st)
    ELSE [st EXCEPT !.objects[identifier].registeredJobActions = @ \cup {name}]

\* what require(mainPath) may give: a function, an object with a callable
\* `default`, something else, or an error raised by the module
Modules == {"function", "default", "other", "raises"}

\* Plugin.load
PluginLoad(st, identifier, module) ==
    LET s0 == [st EXCEPT !.objects[identifier].loadContext = FALSE]
    IN IF ~st.objects[identifier].engines THEN Throw(s0)
       ELSE IF module \in {"function", "default"}
            THEN [s0 EXCEPT !.objects[identifier].pluginInitializer = TRUE]
            ELSE Throw(s0)

(***************************************************************************)
(* PluginManager (src/unnamed/part_000).                                   *)
(***************************************************************************)
NoJobActions == [name \in JobActionNames |-> <<>>]

\* A search path: its path, and whether it is a plugin package itself, a
\* directory of packages or a directory that also has scope directories.
CustomPaths ==
    [path : {<<"/custom">>}, kind : {"package", "directory", "scoped directory"}]

\* PluginManager.loadDefaultPaths: of the default paths one exists on disk
DefaultPaths == <<[path |-> <<"/usr/local/lib/node_modules">>, kind |-> "directory"]>>

loadDefaultPaths(searchPaths) == searchPaths \o DefaultPaths

\* the options of the PluginManager: customPluginPath holds the custom search
\* path if there is one, activePlugins tells whether config.plugins is defined
\* and what it includes
NoOptions ==
    [customPluginPath |-> <<>>, activePlugins |-> [defined |-> FALSE, includes |-> {}]]

PluginManagerOptions ==
    [customPluginPath : {<<>>} \cup { <<c>> : c \in CustomPaths },
     activePlugins : {NoOptions.activePlugins}
                         \cup [defined : {TRUE},
                               includes : SUBSET (PackageNames \ {<<"other-plugin">>})]]

\* the constructor of PluginManager
NewPluginManager(options) ==
    [searchPaths |-> options.customPluginPath, activePlugins |-> options.activePlugins,
     plugins |-> <<>>, pluginIdentifierTranslation |-> EmptyMap,
     jobActionToPluginMap |-> NoJobActions, currentInitializingPlugin |-> Undefined]

SeqHas(seq, x) == \E k \in 1..Len(seq) : seq[k] = x

SeqDelete(seq, x) == SelectSeq(seq, LAMBDA y : y # x)

\* this.plugins.delete(identifier)
PluginsDelete(st, identifier) == [st EXCEPT !.plugins = SeqDelete(@, identifier)]

\* PluginManager.handleRegisterJobAction
handleRegisterJobAction(st, name, pluginIdentifier) ==
    IF st.currentInitializingPlugin = Undefined THEN Throw(st)
    ELSE LET current == st.currentInitializingPlugin
             s1 == IF pluginIdentifier # Undefined /\ pluginIdentifier # current
                   THEN [st EXCEPT !.pluginIdentifierTranslation =
                                       MapSet(@, pluginIdentifier, current)]
                   ELSE st
             s2 == PluginRegisterJobAction(s1, current, name)
         IN IF s2.thrown THEN s2
            ELSE [s2 EXCEPT !.jobActionToPluginMap[name] = Append(@, current)]

\* CompressarrAPI.registerJobAction: the bus event carries no plugin identifier
registerJobAction(st, name) == handleRegisterJobAction(st, name, Undefined)

RECURSIVE PluginInitializer(_, _, _)
\* the initializer of a plugin: it registers the names of `calls` in turn and
\* then returns or raises; an error of a registration ends it
PluginInitializer(st, calls, raises) ==
    IF calls = <<>> THEN (IF raises THEN Throw(st) ELSE st)
    ELSE LET s1 == registerJobAction(st, Head(calls))
         IN IF s1.thrown THEN s1 ELSE PluginInitializer(s1, Tail(calls), raises)

\* Plugin.initialize
PluginInitialize(st, identifier, calls, raises) ==
    IF ~st.objects[identifier].pluginInitializer THEN Throw(st)
    ELSE PluginInitializer(st, calls, raises)

\* PluginManager.initializePlugin
initializePlugin(st, identifier, calls, raises) ==
    LET s1 == PluginInitialize([st EXCEPT !.currentInitializingPlugin = identifier],
                               identifier, calls, raises)
    IN IF s1.thrown THEN Caught(PluginsDelete(s1, identifier)) ELSE s1

\* one iteration of the forEach of PluginManager.initializeInstalledPlugins;
\* `listed` tells whether disabledPlugins includes the identifier
InitializeInstalledPlugin(st, identifier, module, listed, calls, raises) ==
    LET s1 == PluginLoad(st, identifier, module)
    IN IF s1.thrown THEN Caught(PluginsDelete(s1, identifier))
       ELSE initializePlugin([s1 EXCEPT !.objects[identifier].disabled = listed],
                             identifier, calls, raises)

\* PluginManager.loadPackageJSON, and what it would be without the test of
\* the name
loadPackageJSONAnyName(st, packageJSON) ==
    IF ~packageJSON.readable \/ packageJSON.name = Undefined \/ ~packageJSON.keywords
    THEN Throw(st) ELSE st

loadPackageJSON(st, packageJSON) ==
    IF \/ ~packageJSON.readable
       \/ packageJSON.name = Undefined
       \/ ~isQualifiedPluginIdentifier(packageJSON.name)
       \/ ~packageJSON.keywords
    THEN Throw(st) ELSE st

\* PluginManager.loadPlugin, and what it would be if a plugin found again
\* replaced the one of the registry
loadPluginReplacing(st, absolutePath, packageJSON) ==
    IF loadPackageJSON(st, packageJSON).thrown THEN Throw(st)
    ELSE [st EXCEPT !.plugins = IF SeqHas(@, packageJSON.name) THEN @
                                 ELSE Append(@, packageJSON.name),
                    !.objects = MapSet(@, packageJSON.name,
                                       NewPlugin(packageJSON.name, absolutePath,
                                                 packageJSON))]

loadPlugin(st, absolutePath, packageJSON) ==
    IF loadPackageJSON(st, packageJSON).thrown THEN Throw(st)
    ELSE IF SeqHas(st.plugins, packageJSON.name) THEN Throw(st)
    ELSE [st EXCEPT !.plugins = Append(@, packageJSON.name),
                    !.objects = MapSet(@, packageJSON.name,
                                       NewPlugin(packageJSON.name, absolutePath,
                                                 packageJSON))]

\* whether the allow-list lets a relative path through
Active(st, pluginIdentifier) ==
    ~st.activePlugins.defined \/ pluginIdentifier \in st.activePlugins.includes

\* a directory entry of a search path: the scope directory it lies in, if any,
\* and its name
DirectoryEntries(searchPath) ==
    [scopeDirectory : {Undefined} \cup (IF searchPath.kind = "scoped directory"
                                         THEN Scopes ELSE {}),
     name : PackageNames \ { Scoped(s, p) : s \in Scopes, p \in PluginIdentifiers }]

NoEntry == [scopeDirectory |-> Undefined, name |-> Undefined]

\* the relative path loadInstalledPlugins makes of a directory entry once the
\* scope directories are expanded, Undefined if the entry is left out
RelativePluginPath(entry) ==
    IF entry.scopeDirectory = Undefined THEN entry.name
    ELSE IF isQualifiedPluginIdentifier(entry.name)
         THEN Scoped(entry.scopeDirectory, entry.name)
         ELSE Undefined

\* where the package of a directory entry lies
AbsolutePath(searchPath, entry) ==
    IF searchPath.kind = "package" THEN searchPath.path
    ELSE IF entry.scopeDirectory = Undefined THEN searchPath.path \o entry.name
    ELSE searchPath.path \o Scoped(entry.scopeDirectory, entry.name)

\* what loadInstalledPlugins does with one package of a search path
loadInstalledPlugin(st, searchPath, entry, packageJSON) ==
    LET s1 == loadPlugin(st, AbsolutePath(searchPath, entry), packageJSON)
    IN IF searchPath.kind = "package"
       THEN (IF s1.thrown THEN Caught(s1) ELSE s1)
       ELSE IF /\ isQualifiedPluginIdentifier(RelativePluginPath(entry))
               /\ Active(st, RelativePluginPath(entry))
            THEN (IF s1.thrown THEN Caught(s1) ELSE s1)
            ELSE st

\* PluginManager.hasPluginRegistered
hasPluginRegistered(st, pluginIdentifier) ==
    SeqHas(st.plugins, pluginIdentifier) \/ MapHas(st.pluginIdentifierTranslation, pluginIdentifier)

\* PluginManager.getPlugin
getPlugin(st, pluginIdentifier) ==
    IF SeqHas(st.plugins, pluginIdentifier) THEN pluginIdentifier
    ELSE IF /\ MapHas(st.pluginIdentifierTranslation, pluginIdentifier)
            /\ SeqHas(st.plugins, st.pluginIdentifierTranslation[pluginIdentifier])
         THEN st.pluginIdentifierTranslation[pluginIdentifier]
         ELSE Undefined

Resolved(plugin) == [plugin |-> plugin, error |-> "", options |-> <<>>]

Failed(error, options) == [plugin |-> Undefined, error |-> error, options |-> options]

\* found.filter(plugin => !plugin.disabled)
FilterEnabled(st, found) == SelectSeq(found, LAMBDA p : ~st.objects[p].disabled)

\* PluginManager.getPluginForJobAction: the plugin, or the error it throws
getPluginForJobAction(st, jobActionIdentifier) ==
    IF NoDot(jobActionIdentifier)
    THEN LET found == IF jobActionIdentifier \in DOMAIN st.jobActionToPluginMap
                      THEN st.jobActionToPluginMap[jobActionIdentifier] ELSE <<>>
         IN IF found = <<>> THEN Failed("No plugin was found", <<>>)
            ELSE IF Len(found) > 1
                 THEN IF Len(FilterEnabled(st, found)) # 1
                      THEN Failed("registered multiple times",
                                  [k \in 1..Len(found) |->
                                      Qualified(found[k], jobActionIdentifier)])
                      ELSE Resolved(FilterEnabled(st, found)[1])
                 ELSE Resolved(found[1])
    ELSE IF ~hasPluginRegistered(st, getPluginIdentifier(jobActionIdentifier))
         THEN Failed("was not registered", <<>>)
         ELSE Resolved(getPlugin(st, getPluginIdentifier(jobActionIdentifier)))

\* Plugin.getJobActionConstructor: whether the plugin has the constructor
HasJobActionConstructor(st, plugin, jobActionIdentifier) ==
    getJobActionName(jobActionIdentifier) \in st.objects[plugin].registeredJobActions

\* the Server before start(): no job action instance yet
NewStartup == [pc |-> "loadInstalledPlugins", index |-> 0, jobActionsInstances |-> <<>>]

(***************************************************************************)
(* User (src/src/user.ts).  A path string is the sequence of its segments; *)
(* a segment that begins with a slash is absolute.                         *)
(***************************************************************************)
\* the segments a caller may pass to setStoragePath
PathSegments == {"/data", "/home", "store"}

IsAbsolute(segment) == segment \in {"/data", "/home"}

\* process.cwd() and os.homedir()
Cwd == <<"/cwd">>

HomeDir == <<"/home">>

\* path.resolve(...segments): the segments from the last absolute one on, or
\* all of them under the working directory
resolve(segments) ==
    IF \E k \in 1..Len(segments) : IsAbsolute(segments[k])
    THEN SubSeq(segments,
                CHOOSE k \in 1..Len(segments) :
                    /\ IsAbsolute(segments[k])
                    /\ \A j \in (k + 1)..Len(segments) : ~IsAbsolute(segments[j]),
                Len(segments))
    ELSE Cwd \o segments

\* the static fields of User when the module is loaded
NewUser == [customStoragePath |-> Undefined, storageAccessed |-> FALSE]

\* User.storagePath: the fields after the call and the path it returns
storagePath(u) ==
    [user |-> [u EXCEPT !.storageAccessed = TRUE],
     value |-> IF u.customStoragePath # Undefined THEN u.customStoragePath
               ELSE join(HomeDir, <<".compressarr">>),
     thrown |-> FALSE]

\* User.configPath, jobPath, persistPath and cachedJobActionsPath
PathReaders == {"storagePath", "configPath", "jobPath", "persistPath", "cachedJobActionsPath"}

FileOf(reader) ==
    CASE reader = "configPath" -> <<"config.json">>
      [] reader = "jobPath" -> <<"jobs">>
      [] reader = "persistPath" -> <<"persist">>
      [] reader = "cachedJobActionsPath" -> <<"job actions">>
      [] OTHER -> <<>>

ReadPath(u, reader) == [storagePath(u) EXCEPT !.value = join(@, FileOf(reader))]

\* User.setStoragePath, and what it would be without the test of
\* storageAccessed
setStoragePathAlways(u, segments) ==
    [user |-> [u EXCEPT !.customStoragePath = resolve(segments)], value |-> Undefined,
     thrown |-> FALSE]

setStoragePath(u, segments) ==
    IF u.storageAccessed THEN [user |-> u, value |-> Undefined, thrown |-> TRUE]
    ELSE [user |-> [u EXCEPT !.customStoragePath = resolve(segments)],
          value |-> Undefined, thrown |-> FALSE]

(***************************************************************************)
(* LibraryManager (src/src/plugin.ts).                                     *)
(***************************************************************************)
\* the names and the root directories config.libraries may give: the last
\* root does not exist on disk
LibraryNames == {<<"movies">>, <<"shows">>}

LibraryRoots == {<<Seg("lib", "")>>, <<Seg("lib2", "")>>, <<Seg("gone", "")>>}

existsSync(path) == path \in {<<Seg("lib", "")>>, <<Seg("lib2", "")>>}

\* the entries config.libraries may hold
LibraryConfigs ==
    [library : LibraryRoots \cup {Undefined}, name : LibraryNames \cup {Undefined}]

\* the constructor of Library: watchers counts the watchers its FileService
\* has started, listeners the handlers subscribed to each of its file events
NewLibrary(name, path) ==
    [libraryName |-> name, libraryPath |-> path, disabled |-> FALSE,
     watchers |-> 0, listeners |-> 0]

\* the LibraryManager the Server constructs, with config.libraries and the
\* option disabledLibraries; index counts the entries Server.loadLibraries has
\* visited, initialized tells whether initializeLibraries has run
LibraryManagerOf(configs, disabledLibraries) ==
    [config |-> configs, disabledLibraries |-> disabledLibraries,
     libraries |-> <<>>, objects |-> EmptyMap, initialized |-> FALSE, index |-> 0]

NewLibraryManager == LibraryManagerOf(<<>>, {})

\* LibraryManager.loadLibrary: the manager after it and whether it threw
loadLibrary(lm, config) ==
    IF SeqHas(lm.libraries, config.name) THEN [lm |-> lm, thrown |-> TRUE]
    ELSE [lm |-> [lm EXCEPT !.libraries = Append(@, config.name),
                            !.objects = MapSet(@, config.name,
                                               NewLibrary(config.name, config.library))],
          thrown |-> FALSE]

RECURSIVE ManagerLoadLibraries(_, _)
\* LibraryManager.loadLibraries: an entry whose root does not exist is left
\* out, an error of loadLibrary is caught and logged
ManagerLoadLibraries(lm, configs) ==
    IF configs = <<>> THEN lm
    ELSE ManagerLoadLibraries(IF existsSync(Head(configs).library)
                              THEN loadLibrary(lm, Head(configs)).lm ELSE lm,
                              Tail(configs))

\* LibraryManager.initializeLibraries
initializeLibraries(lm, configs) ==
    LET s1 == ManagerLoadLibraries(lm, configs)
    IN [s1 EXCEPT !.initialized = TRUE,
                  !.objects = [name \in DOMAIN s1.objects |->
                                  IF name \in s1.disabledLibraries
                                  THEN [s1.objects[name] EXCEPT !.disabled = TRUE]
                                  ELSE s1.objects[name]]]

\* Library.initialize: FileService.start makes a watcher, and a handler is
\* subscribed to each file event
LibraryInitialize(lm, name) ==
    [lm EXCEPT !.objects[name].watchers = @ + 1, !.objects[name].listeners = @ + 1]

\* library.disabled as Server.loadLibraries reads it, and what it would be if
\* the flag were not looked at
LibraryDisabledNever(lm, name) == FALSE

LibraryDisabled(lm, name) == lm.objects[name].disabled

\* one iteration of the forEach of Server.loadLibraries: the manager after it
\* and what became of the entry
ServerLoadLibrary(lm, libraryConfig) ==
    LET Skip(why) == [lm |-> lm, result |-> why]
    IN IF libraryConfig.library = Undefined THEN Skip("missing library")
       ELSE IF libraryConfig.name = Undefined THEN Skip("missing name")
       ELSE IF ~SeqHas(lm.libraries, libraryConfig.name) THEN Skip("not found")
       ELSE IF LibraryDisabled(lm, libraryConfig.name) THEN Skip("disabled")
       ELSE [lm |-> LibraryInitialize(lm, libraryConfig.name), result |-> "initialized"]

(***************************************************************************)
(* State.                                                                  *)
(***************************************************************************)
VARIABLES
    instances,          \* JobManager.instances
    numActions,         \* Server.jobActionsInstances.length
    jobs,               \* JobManager.jobs (pending), in insertion order
    activeJobs,         \* JobManager.activeJobs
    serverActiveJobs,   \* Server.activeJobs
    tasks,              \* the suspended invocations of the REGISTER_JOB handler
    emitted,            \* the last step: the event that triggered it, then the bus
                        \* events it published and the collaborator calls it made
    history,            \* whether the invocations record the replacements of the
                        \* file they work on (a history of the file system)
    files,              \* the media files that exist under the library root
    probes,             \* the handlers of the Library suspended at `await getInfo`
    pluginManager,      \* the fields of the PluginManager
    pluginObjects,      \* the Plugin objects, by identifier
    startup,            \* Server.start: its position, the entries of config.jobActions
                        \* it has visited, and Server.jobActionsInstances
    user,               \* the static fields of User
    libraryManager,     \* the LibraryManager, its Library objects and config.libraries
    shuttingDown,       \* the flag of the signal handler of the cli
    destJob,            \* the Job a job action asks for its destination
    tempFiles           \* the suffixes i for which <tempPath>/<name>-<i> exists on disk

vars ==
    <<instances, numActions, jobs, activeJobs, serverActiveJobs, tasks, emitted, history,
      files, probes, pluginManager, pluginObjects, startup, user, libraryManager,
      shuttingDown, destJob, tempFiles>>

\* the mutable state as the handlers thread it
Cur ==
    [jobs |-> jobs, activeJobs |-> activeJobs, serverActiveJobs |-> serverActiveJobs,
     tasks |-> tasks, emitted |-> <<>>]

Commit(st) ==
    /\ jobs' = st.jobs
    /\ activeJobs' = st.activeJobs
    /\ serverActiveJobs' = st.serverActiveJobs
    /\ tasks' = st.tasks
    /\ emitted' = st.emitted

\* One entry of `emitted`: what happened (ev), for which path, at which action
\* instance (i), with which result (what), and the scheduler's tables at that
\* instant.  The other fields are set by the events they belong to: the payload
\* of a media event (libraryPath, mediaPath), the JobConfig of REGISTER_JOB (cfg),
\* the current source of the job that is published (source),
\* `killed`, `replaced` and `ahead`.
Event(st, ev, path, i, what) ==
    [ev |-> ev, path |-> path, i |-> i, what |-> what,
     schedActive |-> MapHas(st.activeJobs, path),
     schedPending |-> JobsHas(st.jobs, path),
     libraryPath |-> Undefined, mediaPath |-> Undefined, cfg |-> Undefined,
     source |-> Undefined,
     killed |-> FALSE, replaced |-> FALSE, ahead |-> 0]

Record(st, ev, path, i, what) ==
    [st EXCEPT !.emitted = Append(@, Event(st, ev, path, i, what))]

\* EventEmitter.emit of a bus event
Emit(st, ev, path) == Record(st, ev, path, 0, "")

\* EventEmitter.emit of a media event, whose handler computes srcPath
EmitMedia(st, ev, libraryPath, mediaPath, srcPath) ==
    [st EXCEPT !.emitted = Append(@, [Event(st, ev, srcPath, 0, "") EXCEPT
                                          !.libraryPath = libraryPath,
                                          !.mediaPath = mediaPath])]

\* EventEmitter.emit of REGISTER_JOB
EmitRegisterJob(st, path, jobConfig) ==
    [st EXCEPT !.emitted = Append(@, [Event(st, "REGISTER_JOB", path, 0, "") EXCEPT
                                          !.cfg = jobConfig])]

(***************************************************************************)
(* JobManager (src/src/jobManager.ts) and the runner (src/src/server.ts).  *)
(* The handlers call each other synchronously through the bus:             *)
(*   next -> registerJob -> REGISTER_JOB handler -> (no action left)       *)
(*        -> publishJob -> handlePublishJob -> next                        *)
(***************************************************************************)
RECURSIVE next(_), registerJob(_, _, _), runnerLoop(_, _, _), runnerFinish(_, _)
RECURSIVE publishJob(_, _), handlePublishJob(_, _)

\* a JobConfig whose tempPath keeps the file name with its extension
MakeJobConfigKeepExt(libraryPath, mediaPath) ==
    [name |-> ParseName(mediaPath),
     srcPath |-> join(libraryPath, mediaPath),
     tempPath |-> join(JobRoot, mediaPath)]

\* the JobConfig built by handleRegisterMedia and handleUpdateMedia
MakeJobConfig(libraryPath, mediaPath) ==
    LET tempPath == join(JobRoot, mediaPath)
    IN [name |-> ParseName(mediaPath),
        srcPath |-> join(libraryPath, mediaPath),
        tempPath |-> join(ParseDir(tempPath), <<Seg(ParseName(tempPath), "")>>)]

\* the cap test with `>` in place of `>=`
CapReachedOffByOne(st) == Cardinality(DOMAIN st.activeJobs) > instances

\* `this.activeJobs.size >= this.instances`
CapReached(st) == Cardinality(DOMAIN st.activeJobs) >= instances

\* the entry inserted last in place of the one inserted first
LastEntry(js) == js[Len(js)]

\* `this.jobs.entries().next().value`: the first entry in insertion order
FirstEntry(js) == js[1]

\* what next() decided: the key it admits and how many entries it passed over
Admitted(st, key, ahead) ==
    [st EXCEPT !.emitted = Append(@, [Event(st, "admit", key, 0, "") EXCEPT !.ahead = ahead])]

\* a next() that returns at once
nextNothing(st) == st

\* JobManager.next
next(st) ==
    IF Len(st.jobs) = 0 \/ CapReached(st)
    THEN st
    ELSE LET e == FirstEntry(st.jobs)
             s1 == [st EXCEPT !.jobs = JobsDelete(@, e.key),
                              !.activeJobs = MapSet(@, e.key, e.cfg)]
         IN next(registerJob(Admitted(s1, e.key, JobsAhead(st.jobs, e.key)), e.key, e.cfg))

\* one invocation of the REGISTER_JOB handler: its `path`, its `job`, the index
\* of the action instance whose start() it called last, whether kill(path) was
\* called on that instance since, and whether the file at `path` was replaced
\* since the invocation began
NewTask(path, jobConfig) ==
    [path |-> path, job |-> NewJob(jobConfig), step |-> 0, killed |-> FALSE,
     replaced |-> FALSE]

\* `moveSync(job.getSrcPath(), path, { overwrite: true })`: the file at `path` is
\* replaced, under the eyes of every other invocation that works on the path
MoveSync(st, task) ==
    LET mark(other) == IF history /\ other.path = task.path
                       THEN [other EXCEPT !.replaced = TRUE]
                       ELSE other
    IN [st EXCEPT !.tasks = BagOfAll(mark, @),
                  !.emitted = Append(@, [Event(st, "moveSync", task.path, task.step, "")
                                             EXCEPT !.replaced = task.replaced])]

\* jobActionInstance.kill(path) on instance i: the action is asked to end the
\* start() it has outstanding for the path
Kill(st, path, i) ==
    LET hit(task) == task.path = path /\ task.step = i
        mark(task) == IF hit(task) THEN [task EXCEPT !.killed = TRUE] ELSE task
    IN [Record(st, "kill", path, i, "") EXCEPT !.tasks = BagOfAll(mark, @)]

\* the invocation suspends at `await jobActionInstance.start(job)`
Suspend(st, task) == [st EXCEPT !.tasks = @ (+) SetToBag({task})]

\* a resumption after which the settled start() still counts as outstanding
ResumeKeeping(st, task) == st

\* the invocation is resumed
Resume(st, task) == [st EXCEPT !.tasks = @ (-) SetToBag({task})]

\* CompressarrAPI.registerJob: emit REGISTER_JOB; the handler of Server runs up to
\* its first await
registerJob(st, path, jobConfig) ==
    LET s1 == EmitRegisterJob(st, path, jobConfig)
        s2 == [s1 EXCEPT !.serverActiveJobs = MapSet(@, path, jobConfig)]
    IN runnerLoop(s2, NewTask(path, jobConfig), 1)

\* the for-loop of the REGISTER_JOB handler if it awaited no start()
runnerLoopNoAwait(st, task, i) == runnerFinish(st, task)

\* the for-loop of the REGISTER_JOB handler, entered at instance i
runnerLoop(st, task, i) ==
    IF i > numActions
    THEN runnerFinish(st, task)
    ELSE IF MapHas(st.serverActiveJobs, task.path)
         THEN Suspend(Record(st, "start", task.path, i, ""), [task EXCEPT !.step = i])
         ELSE runnerFinish(Kill(st, task.path, i), task)

\* a runner that publishes PUBLISH_JOB twice for its job
EmitPublishJobTwice(st, task) ==
    LET published == [Event(st, "PUBLISH_JOB", task.path, task.step, "")
                          EXCEPT !.source = getSrcPath(task.job)]
    IN [st EXCEPT !.emitted = Append(Append(@, published), published)]

\* `this.api.publishJob(path)` as the runner calls it for its job
EmitPublishJob(st, task) ==
    [st EXCEPT !.emitted = Append(@, [Event(st, "PUBLISH_JOB", task.path, task.step, "")
                                          EXCEPT !.source = getSrcPath(task.job)])]

\* the end of the handler without the move of the final source
runnerFinishNoMove(st, task) ==
    LET path == task.path
    IN IF MapHas(st.serverActiveJobs, path)
       THEN LET s2 == [st EXCEPT !.serverActiveJobs = MapDelete(@, path)]
                s3 == Record(s2, "rimraf", path, task.step, "")
                s4 == publishJob(EmitPublishJob(s3, task), path)
            IN Record(s4, "return", path, task.step, "published")
       ELSE Record(st, "return", path, task.step, "cancelled")

\* the REGISTER_JOB handler after its loop
runnerFinish(st, task) ==
    LET path == task.path
        moved == getSrcPath(task.job) # path
    IN IF MapHas(st.serverActiveJobs, path)
       THEN LET s1 == IF moved THEN MoveSync(st, task) ELSE st
                s2 == [s1 EXCEPT !.serverActiveJobs = MapDelete(@, path)]
                s3 == Record(s2, "rimraf", path, task.step, "")
                s4 == publishJob(EmitPublishJob(s3, task), path)
            IN Record(s4, "return", path, task.step, "published")
       ELSE Record(st, "return", path, task.step, "cancelled")

\* CompressarrAPI.publishJob: emit PUBLISH_JOB, to which JobManager subscribes
publishJob(st, path) == handlePublishJob(st, path)

\* handlePublishJob without its call of next()
handlePublishJobNoNext(st, path) ==
    [st EXCEPT !.jobs = JobsDelete(@, path), !.activeJobs = MapDelete(@, path)]

\* JobManager.handlePublishJob
handlePublishJob(st, path) ==
    next([st EXCEPT !.jobs = JobsDelete(@, path), !.activeJobs = MapDelete(@, path)])

RECURSIVE KillAll(_, _, _)
\* `for (const jobActionInstance of this.jobActionsInstances) jobActionInstance.kill(path)`
KillAll(st, path, i) ==
    IF i > numActions THEN st ELSE KillAll(Kill(st, path, i), path, i + 1)

\* the UNREGISTER_JOB handler of Server
UnregisterJobHandler(st, path) ==
    [KillAll(st, path, 1) EXCEPT !.serverActiveJobs = MapDelete(@, path)]

\* `this.api.emit(InternalAPIEvent.UNREGISTER_JOB, srcPath)`
EmitUnregisterJob(st, path) == UnregisterJobHandler(Emit(st, "UNREGISTER_JOB", path), path)

\* `this.jobs.set(srcPath, jobConfig)`
SetPending(st, srcPath, jobConfig) == [st EXCEPT !.jobs = JobsSet(@, srcPath, jobConfig)]

\* JobManager.handleRegisterMedia
handleRegisterMedia(st, libraryPath, mediaPath) ==
    LET jobConfig == MakeJobConfig(libraryPath, mediaPath)
        srcPath == jobConfig.srcPath
        s0 == EmitMedia(st, "REGISTER_MEDIA", libraryPath, mediaPath, srcPath)
    IN next(SetPending(s0, srcPath, jobConfig))

\* handleUpdateMedia publishing UNREGISTER_JOB before it deletes the active entry
handleUpdateMediaEmitFirst(st, libraryPath, mediaPath) ==
    LET jobConfig == MakeJobConfig(libraryPath, mediaPath)
        srcPath == jobConfig.srcPath
        s1 == SetPending(EmitMedia(st, "UPDATE_MEDIA", libraryPath, mediaPath, srcPath),
                         srcPath, jobConfig)
        s2 == EmitUnregisterJob(s1, srcPath)
    IN next([s2 EXCEPT !.activeJobs = MapDelete(@, srcPath)])

\* JobManager.handleUpdateMedia
handleUpdateMedia(st, libraryPath, mediaPath) ==
    LET jobConfig == MakeJobConfig(libraryPath, mediaPath)
        srcPath == jobConfig.srcPath
        s1 == SetPending(EmitMedia(st, "UPDATE_MEDIA", libraryPath, mediaPath, srcPath),
                         srcPath, jobConfig)
        s2 == [s1 EXCEPT !.activeJobs = MapDelete(@, srcPath)]
    IN next(EmitUnregisterJob(s2, srcPath))

\* handleUnregisterMedia without publishing UNREGISTER_JOB
handleUnregisterMediaNoEmit(st, libraryPath, mediaPath) ==
    LET srcPath == join(libraryPath, mediaPath)
        s0 == EmitMedia(st, "UNREGISTER_MEDIA", libraryPath, mediaPath, srcPath)
        s1 == [s0 EXCEPT !.jobs = JobsDelete(@, srcPath),
                         !.activeJobs = MapDelete(@, srcPath)]
    IN next(s1)

\* JobManager.handleUnregisterMedia
handleUnregisterMedia(st, libraryPath, mediaPath) ==
    LET srcPath == join(libraryPath, mediaPath)
        s0 == EmitMedia(st, "UNREGISTER_MEDIA", libraryPath, mediaPath, srcPath)
        s1 == [s0 EXCEPT !.jobs = JobsDelete(@, srcPath),
                         !.activeJobs = MapDelete(@, srcPath)]
    IN next(EmitUnregisterJob(s1, srcPath))

\* how an awaited start() can settle: with the job unchanged, with a job whose
\* source was rewritten (Job.setPath), with KillError (the answer of an action to
\* kill), with another error
Outcomes == {"resolved", "rewritten", "KillError", "Error"}

\* a catch clause that takes no error for a KillError
IsKillErrorNever(outcome) == FALSE

\* `error instanceof KillError`
IsKillError(outcome) == outcome = "KillError"

\* the REGISTER_JOB handler resumed after `await jobActionInstance.start(job)`
AfterStart(st, task, outcome) ==
    LET s0 == [Resume(st, task) EXCEPT !.emitted = Append(@,
                  [Event(st, "settle", task.path, task.step, outcome) EXCEPT !.killed = task.killed])]
    IN IF outcome \in {"resolved", "rewritten"}
       THEN LET job == IF outcome = "rewritten" THEN setPath(task.job, ArtifactName)
                       ELSE task.job
            IN runnerLoop(s0, [task EXCEPT !.job = job, !.killed = FALSE], task.step + 1)
       ELSE IF IsKillError(outcome)
            THEN Record(s0, "return", task.path, task.step, "killed")
            ELSE runnerLoop(s0, [task EXCEPT !.killed = FALSE], task.step + 1)

(***************************************************************************)
(* The state machine.                                                      *)
(***************************************************************************)
\* JobManager constructor: `if (options.instances) this.instances = ...`, else 1
InstancesOf(option) == IF option # 0 THEN option ELSE 1

Init ==
    /\ \E option \in 0..MaxInstances : instances = InstancesOf(option)
    /\ numActions \in 0..MaxActions
    /\ jobs = <<>>
    /\ activeJobs = EmptyMap
    /\ serverActiveJobs = EmptyMap
    /\ tasks = EmptyBag
    /\ emitted = <<>>
    /\ history = FALSE
    /\ files = {}
    /\ probes = {}
    /\ pluginManager = NewPluginManager(NoOptions)
    /\ pluginObjects = EmptyMap
    /\ startup = NewStartup
    /\ user = storagePath(NewUser).user
    /\ libraryManager = NewLibraryManager
    /\ shuttingDown = FALSE
    /\ destJob = NoJob
    /\ tempFiles = {}

\* the run stays within MaxTasks suspended invocations
WithinMaxTasks(st) == BagCardinality(st.tasks) <= MaxTasks

\* REGISTER_MEDIA is delivered on the bus
RegisterMedia ==
    \E l \in LibraryPaths, m \in MediaPaths :
        /\ WithinMaxTasks(handleRegisterMedia(Cur, l, m))
        /\ Commit(handleRegisterMedia(Cur, l, m))
        /\ UNCHANGED <<destJob, tempFiles, user, libraryManager, shuttingDown, instances, numActions, history, files, probes, pluginManager, pluginObjects, startup>>

\* UPDATE_MEDIA is delivered on the bus
UpdateMedia ==
    \E l \in LibraryPaths, m \in MediaPaths :
        /\ WithinMaxTasks(handleUpdateMedia(Cur, l, m))
        /\ Commit(handleUpdateMedia(Cur, l, m))
        /\ UNCHANGED <<destJob, tempFiles, user, libraryManager, shuttingDown, instances, numActions, history, files, probes, pluginManager, pluginObjects, startup>>

\* UNREGISTER_MEDIA is delivered on the bus
UnregisterMedia ==
    \E l \in LibraryPaths, m \in MediaPaths :
        /\ WithinMaxTasks(handleUnregisterMedia(Cur, l, m))
        /\ Commit(handleUnregisterMedia(Cur, l, m))
        /\ UNCHANGED <<destJob, tempFiles, user, libraryManager, shuttingDown, instances, numActions, history, files, probes, pluginManager, pluginObjects, startup>>

\* the start() a suspended invocation awaits settles
StartSettles ==
    \E task \in BagToSet(tasks), outcome \in Outcomes :
        /\ outcome = "KillError" => task.killed
        /\ Commit(AfterStart(Cur, task, outcome))
        /\ UNCHANGED <<destJob, tempFiles, user, libraryManager, shuttingDown, instances, numActions, history, files, probes, pluginManager, pluginObjects, startup>>

Next == RegisterMedia \/ UpdateMedia \/ UnregisterMedia \/ StartSettles

Spec == Init /\ [][Next]_vars

\* the same program, with the replacements of the files recorded
InitHistory ==
    /\ \E option \in 0..MaxInstances : instances = InstancesOf(option)
    /\ numActions \in 0..MaxActions
    /\ jobs = <<>>
    /\ activeJobs = EmptyMap
    /\ serverActiveJobs = EmptyMap
    /\ tasks = EmptyBag
    /\ emitted = <<>>
    /\ history = TRUE
    /\ files = {}
    /\ probes = {}
    /\ pluginManager = NewPluginManager(NoOptions)
    /\ pluginObjects = EmptyMap
    /\ startup = NewStartup
    /\ user = storagePath(NewUser).user
    /\ libraryManager = NewLibraryManager
    /\ shuttingDown = FALSE
    /\ destJob = NoJob
    /\ tempFiles = {}

SpecHistory == InitHistory /\ [][Next]_vars

(***************************************************************************)
(* The same program with library roots that are nested: the file           *)
(* /lib/a/x.mp4 is reported by the library /lib as a/x.mp4 and by the      *)
(* library /lib/a as x.mp4, so one source path comes with two JobConfigs.  *)
(***************************************************************************)
NestedFiles ==
    {<<<<Seg("lib", "")>>, <<Seg("a", ""), Seg("x", ".mp4")>>>>,
     <<<<Seg("lib", ""), Seg("a", "")>>, <<Seg("x", ".mp4")>>>>,
     <<<<Seg("lib", "")>>, <<Seg("x", ".mp4")>>>>}

\* the run stays within MaxNestedTasks suspended invocations
WithinMaxNestedTasks(st) == BagCardinality(st.tasks) <= MaxNestedTasks

\* REGISTER_MEDIA is delivered on the bus
RegisterNestedMedia ==
    \E f \in NestedFiles :
        /\ WithinMaxNestedTasks(handleRegisterMedia(Cur, f[1], f[2]))
        /\ Commit(handleRegisterMedia(Cur, f[1], f[2]))
        /\ UNCHANGED <<destJob, tempFiles, user, libraryManager, shuttingDown, instances, numActions, history, files, probes, pluginManager, pluginObjects, startup>>

\* UPDATE_MEDIA is delivered on the bus
UpdateNestedMedia ==
    \E f \in NestedFiles :
        /\ WithinMaxNestedTasks(handleUpdateMedia(Cur, f[1], f[2]))
        /\ Commit(handleUpdateMedia(Cur, f[1], f[2]))
        /\ UNCHANGED <<destJob, tempFiles, user, libraryManager, shuttingDown, instances, numActions, history, files, probes, pluginManager, pluginObjects, startup>>

\* UNREGISTER_MEDIA is delivered on the bus
UnregisterNestedMedia ==
    \E f \in NestedFiles :
        /\ WithinMaxNestedTasks(handleUnregisterMedia(Cur, f[1], f[2]))
        /\ Commit(handleUnregisterMedia(Cur, f[1], f[2]))
        /\ UNCHANGED <<destJob, tempFiles, user, libraryManager, shuttingDown, instances, numActions, history, files, probes, pluginManager, pluginObjects, startup>>

NextNested ==
    RegisterNestedMedia \/ UpdateNestedMedia \/ UnregisterNestedMedia \/ StartSettles

SpecNested == Init /\ [][NextNested]_vars

(***************************************************************************)
(* Library (src/unnamed/part_002, class Library) with its FileService      *)
(* (src/src/user.ts): the watcher signals add, change and unlink reach the *)
(* handlers fileAdded, fileChanged and fileRemoved, which await the media  *)
(* probe and then publish the media event.                                 *)
(***************************************************************************)
\* Library.libraryPath
libraryPath == <<Seg("lib", "")>>

\* the absolute paths of the media files the watcher reports
LibraryFiles ==
    {<<Seg("lib", ""), Seg("x", ".mp4")>>,
     <<Seg("lib", ""), Seg("a", ""), Seg("y", ".mp4")>>}

\* `path.slice(this.libraryPath.length - path.length + sep.length)`: the path
\* without its first libraryPath.length + sep.length characters
SliceLibraryPath(path) == SubSeq(path, Len(libraryPath) + 1, Len(path))

\* a handler of the Library is called with the path and awaits getInfo(path)
AwaitGetInfo(signal, path) ==
    /\ Cardinality(probes) < MaxProbes
    /\ [signal |-> signal, path |-> path] \notin probes
    /\ probes' = probes \cup {[signal |-> signal, path |-> path]}
    /\ emitted' = <<Event(Cur, signal, path, 0, "")>>
    /\ UNCHANGED <<destJob, tempFiles, user, libraryManager, shuttingDown, instances, numActions, jobs, activeJobs, serverActiveJobs, tasks, history,
                 pluginManager, pluginObjects, startup>>

\* watcher.on('add'): a media file appears
WatcherAdd ==
    \E path \in LibraryFiles \ files :
        /\ files' = files \cup {path}
        /\ AwaitGetInfo("add", path)

\* watcher.on('change'): a media file is rewritten
WatcherChange ==
    \E path \in files :
        /\ files' = files
        /\ AwaitGetInfo("change", path)

\* watcher.on('unlink'): a media file is removed
WatcherUnlink ==
    \E path \in files :
        /\ files' = files \ {path}
        /\ AwaitGetInfo("unlink", path)

\* Library.fileAdded after `await this.getInfo(path)` returned info
fileAdded(st, path) == handleRegisterMedia(st, libraryPath, SliceLibraryPath(path))

\* Library.fileChanged after `await this.getInfo(path)` returned info
fileChanged(st, path) == handleUpdateMedia(st, libraryPath, path)

\* Library.fileRemoved after `await this.getInfo(path)` returned info
fileRemoved(st, path) == handleUnregisterMedia(st, libraryPath, path)

\* Library.getInfo settles for a suspended handler: ffprobe fails on a file
\* that does not exist, and can fail on one that does; without info the handler
\* returns, with info it publishes its media event
AfterGetInfo(st, probe, info) ==
    LET s0 == Record(st, "getInfo", probe.path, 0, probe.signal)
    IN IF ~info THEN s0
       ELSE IF probe.signal = "add" THEN fileAdded(s0, probe.path)
       ELSE IF probe.signal = "change" THEN fileChanged(s0, probe.path)
       ELSE fileRemoved(s0, probe.path)

GetInfoSettles ==
    \E probe \in probes, info \in BOOLEAN :
        /\ info => probe.path \in files
        /\ BagCardinality(AfterGetInfo(Cur, probe, info).tasks) <= MaxLibraryTasks
        /\ Commit(AfterGetInfo(Cur, probe, info))
        /\ probes' = probes \ {probe}
        /\ UNCHANGED <<destJob, tempFiles, user, libraryManager, shuttingDown, instances, numActions, history, files, pluginManager, pluginObjects, startup>>

NextLibrary ==
    WatcherAdd \/ WatcherChange \/ WatcherUnlink \/ GetInfoSettles \/ StartSettles

SpecLibrary == Init /\ [][NextLibrary]_vars

(***************************************************************************)
(* Startup (Server.start, src/src/server.ts): the plugins found on disk    *)
(* are put into the registry, each of them is loaded and initialized, and  *)
(* the job action instances are constructed from config.jobActions.  The   *)
(* packages, the disabledPlugins option and the config entries are inputs  *)
(* that do not change: each is drawn when the program first reads it.      *)
(***************************************************************************)
CurPlugins ==
    [searchPaths |-> pluginManager.searchPaths,
     activePlugins |-> pluginManager.activePlugins,
     plugins |-> pluginManager.plugins,
     pluginIdentifierTranslation |-> pluginManager.pluginIdentifierTranslation,
     jobActionToPluginMap |-> pluginManager.jobActionToPluginMap,
     currentInitializingPlugin |-> pluginManager.currentInitializingPlugin,
     objects |-> pluginObjects, thrown |-> FALSE, caught |-> FALSE]

CommitPlugins(st) ==
    /\ pluginManager' =
           [searchPaths |-> st.searchPaths,
            activePlugins |-> st.activePlugins,
            plugins |-> st.plugins,
            pluginIdentifierTranslation |-> st.pluginIdentifierTranslation,
            jobActionToPluginMap |-> st.jobActionToPluginMap,
            currentInitializingPlugin |-> st.currentInitializingPlugin]
    /\ pluginObjects' = st.objects

\* the sequences of at most n elements of a set
SeqsUpTo(S, n) == UNION { [1..k -> S] : k \in 0..n }

\* the plugins of the registry that have not been loaded yet, in Map order
ToInitialize(st) == SelectSeq(st.plugins, LAMBDA p : st.objects[p].loadContext)

\* initializeInstalledPlugins has returned, and what it would be if start did
\* not call it first
PluginsNeverAwaited == startup.pc \in {"loadInstalledPlugins", "loadJobActions"}

PluginsInitialized ==
    \/ startup.pc = "loadJobActions"
    \/ startup.pc = "loadInstalledPlugins" /\ pluginManager.plugins = <<>>

\* One entry of `emitted` for a step of the startup: what was done (ev), for
\* which plugin and config entry, with which result, and the registry and the
\* job action instances as they were before the step.
StepOfStartup(ev, plugin, jobAction, result, resolution) ==
    [ev |-> ev, plugin |-> plugin, jobAction |-> jobAction, result |-> result,
     resolution |-> resolution, path |-> Undefined, library |-> Undefined,
     plugins |-> pluginManager.plugins,
     jobActionsInstances |-> startup.jobActionsInstances]

\* the entries config.jobActions may hold
ConfigEntries ==
    [jobAction : JobActionIdentifiers, name : {<<"action">>}]
        \cup [jobAction : {Undefined, <<"enc">>}, name : {Undefined}]

\* plugin.disabled as loadJobActions reads it, and what it would be if the
\* flag were not looked at
PluginDisabledNever(st, plugin) == FALSE

PluginDisabled(st, plugin) == st.objects[plugin].disabled

\* one iteration of the forEach of Server.loadJobActions: the instances after
\* it and what became of the entry
loadJobAction(st, jobActionsInstances, jobActionConfig, constructs) ==
    LET resolution == getPluginForJobAction(st, jobActionConfig.jobAction)
        Skip(why) == [jobActionsInstances |-> jobActionsInstances, result |-> why,
                      resolution |-> resolution]
    IN IF jobActionConfig.jobAction = Undefined THEN Skip("missing jobAction")
       ELSE IF jobActionConfig.name = Undefined THEN Skip("missing name")
       ELSE IF resolution.error # "" THEN Skip("not resolved")
       ELSE IF PluginDisabled(st, resolution.plugin) THEN Skip("disabled")
       ELSE IF ~HasJobActionConstructor(st, resolution.plugin, jobActionConfig.jobAction)
            THEN Skip("no constructor")
       ELSE IF ~constructs THEN Skip("constructor raised")
       ELSE [jobActionsInstances |->
                 Append(jobActionsInstances,
                        [plugin |-> resolution.plugin,
                         jobAction |-> getJobActionName(jobActionConfig.jobAction)]),
             result |-> "constructed", resolution |-> resolution]

InitPlugins ==
    /\ instances = InstancesOf(0)
    /\ numActions = 0
    /\ jobs = <<>>
    /\ activeJobs = EmptyMap
    /\ serverActiveJobs = EmptyMap
    /\ tasks = EmptyBag
    /\ emitted = <<>>
    /\ history = FALSE
    /\ files = {}
    /\ probes = {}
    /\ pluginManager = NewPluginManager(NoOptions)
    /\ pluginObjects = EmptyMap
    /\ startup = NewStartup
    /\ user = storagePath(NewUser).user
    /\ libraryManager = NewLibraryManager
    /\ shuttingDown = FALSE
    /\ destJob = NoJob
    /\ tempFiles = {}

\* the place of a search path in the order loadInstalledPlugins visits them
SearchPathIndex(st, path) ==
    CHOOSE k \in 1..Len(loadDefaultPaths(st.searchPaths)) :
        loadDefaultPaths(st.searchPaths)[k].path = SubSeq(path, 1, 1)

\* What the disk may hold for the next package loadInstalledPlugins comes to:
\* the search paths are visited in order and no path twice, a directory of a
\* search path is named after the package it holds, and the plugins are named
\* in the order they are first found.
OnDisk(st, k, entry, packageJSON) ==
    LET searchPath == loadDefaultPaths(st.searchPaths)[k]
    IN /\ (searchPath.kind # "package" /\ packageJSON.readable
                                        /\ packageJSON.name # Undefined) =>
              AbsolutePath(searchPath, entry) = searchPath.path \o packageJSON.name
       /\ (packageJSON.name # Undefined /\ isQualifiedPluginIdentifier(packageJSON.name)) =>
              \/ SeqHas(st.plugins, packageJSON.name)
              \/ /\ Len(st.plugins) < MaxPlugins
                 /\ packageJSON.name[Len(packageJSON.name)]
                        = PluginNames[Len(st.plugins) + 1]
       /\ \A p \in DOMAIN st.objects :
              /\ SearchPathIndex(st, st.objects[p].pluginPath) <= k
              /\ st.objects[p].pluginPath # AbsolutePath(searchPath, entry)

\* loadInstalledPlugins comes to the next package of a search path
LoadInstalledPlugin ==
    /\ startup.pc = "loadInstalledPlugins"
    /\ \E k \in 1..Len(loadDefaultPaths(pluginManager.searchPaths)) :
        LET searchPath == loadDefaultPaths(pluginManager.searchPaths)[k]
        IN \E entry \in (IF searchPath.kind = "package" THEN {NoEntry}
                          ELSE DirectoryEntries(searchPath)),
              packageJSON \in PackageJSONs :
            LET s1 == loadInstalledPlugin(CurPlugins, searchPath, entry, packageJSON)
            IN /\ OnDisk(CurPlugins, k, entry, packageJSON)
               /\ CommitPlugins(s1)
               /\ emitted' = <<[StepOfStartup("loadPlugin", packageJSON.name, Undefined,
                                              IF s1.caught THEN "rejected"
                                              ELSE IF s1.plugins # pluginManager.plugins
                                                   THEN "loaded" ELSE "filtered",
                                              Undefined)
                                    EXCEPT !.path = AbsolutePath(searchPath, entry)]>>
               /\ UNCHANGED <<destJob, tempFiles, user, libraryManager, shuttingDown, instances, numActions, jobs, activeJobs, serverActiveJobs,
                              tasks, history, files, probes, startup>>

\* initializeInstalledPlugins visits the next plugin of the registry
InitializeNextPlugin ==
    /\ startup.pc \in {"loadInstalledPlugins", "initializeInstalledPlugins"}
    /\ ToInitialize(CurPlugins) # <<>>
    /\ \E module \in Modules, listed \in BOOLEAN,
          calls \in SeqsUpTo(JobActionNames, MaxRegistrations), raises \in BOOLEAN :
        LET identifier == ToInitialize(CurPlugins)[1]
            last == Len(ToInitialize(CurPlugins)) = 1
            s1 == InitializeInstalledPlugin(CurPlugins, identifier, module, listed,
                                            calls, raises)
        IN /\ CommitPlugins(IF last
                            THEN [s1 EXCEPT !.currentInitializingPlugin = Undefined]
                            ELSE s1)
           /\ startup' = [startup EXCEPT !.pc = IF last THEN "loadJobActions"
                                                ELSE "initializeInstalledPlugins"]
           /\ emitted' = <<StepOfStartup("initializePlugin", identifier, Undefined,
                                         IF s1.caught THEN "raised" ELSE "initialized",
                                         Undefined)>>
           /\ UNCHANGED <<destJob, tempFiles, user, libraryManager, shuttingDown, instances, numActions, jobs, activeJobs, serverActiveJobs,
                          tasks, history, files, probes>>

\* initializeLibraries has returned; with no entry in config.libraries it
\* does nothing
LibrariesInitialized == libraryManager.initialized \/ libraryManager.config = <<>>

\* libraryManager.initializeLibraries(this.config.libraries)
InitializeLibraries ==
    /\ PluginsInitialized
    /\ ~LibrariesInitialized
    /\ libraryManager' = initializeLibraries(libraryManager, libraryManager.config)
    /\ startup' = [startup EXCEPT !.pc = "loadJobActions"]
    /\ emitted' = <<StepOfStartup("initializeLibraries", Undefined, Undefined, "",
                                  Undefined)>>
    /\ UNCHANGED <<destJob, tempFiles, instances, numActions, jobs, activeJobs, serverActiveJobs, tasks,
                   history, files, probes, pluginManager, pluginObjects, user,
                   shuttingDown>>

\* loadJobActions visits the next entry of config.jobActions
LoadNextJobAction ==
    /\ PluginsInitialized
    /\ LibrariesInitialized
    /\ startup.index < MaxJobActions
    /\ \E jobActionConfig \in ConfigEntries, constructs \in BOOLEAN :
        LET r == loadJobAction(CurPlugins, startup.jobActionsInstances,
                               jobActionConfig, constructs)
        IN /\ startup' = [pc |-> IF r.result = "constructor raised"
                                 THEN "rejected" ELSE "loadJobActions",
                          index |-> startup.index + 1,
                          jobActionsInstances |-> r.jobActionsInstances]
           /\ emitted' = <<StepOfStartup("loadJobAction", r.resolution.plugin,
                                         jobActionConfig.jobAction, r.result,
                                         r.resolution)>>
           /\ UNCHANGED <<destJob, tempFiles, user, libraryManager, shuttingDown, instances, numActions, jobs, activeJobs, serverActiveJobs,
                          tasks, history, files, probes, pluginManager, pluginObjects>>

\* Server.loadLibraries visits the next entry of config.libraries
LoadNextLibrary ==
    /\ PluginsInitialized \/ startup.pc = "loadLibraries"
    /\ libraryManager.initialized
    /\ libraryManager.index < Len(libraryManager.config)
    /\ LET libraryConfig == libraryManager.config[libraryManager.index + 1]
           r == ServerLoadLibrary(libraryManager, libraryConfig)
       IN /\ libraryManager' = [r.lm EXCEPT !.index = @ + 1]
          /\ startup' = [startup EXCEPT !.pc = "loadLibraries"]
          /\ emitted' = <<[StepOfStartup("loadLibrary", Undefined, Undefined, r.result,
                                         Undefined)
                               EXCEPT !.path = libraryConfig.library,
                                      !.library = libraryConfig.name]>>
    /\ UNCHANGED <<destJob, tempFiles, instances, numActions, jobs, activeJobs, serverActiveJobs, tasks,
                   history, files, probes, pluginManager, pluginObjects, user,
                   shuttingDown>>

\* n times x
Replicate(x, n) == [k \in 1..n |-> x]

RECURSIVE Invocations(_, _, _, _)
\* The handler invocations of one file event under a root: each watcher of a
\* Library of that root emits the file event of its FileService, and each
\* emission calls every handler subscribed to it.
Invocations(lm, names, signal, path) ==
    IF names = <<>> THEN <<>>
    ELSE LET library == lm.objects[Head(names)]
         IN (IF library.libraryPath = SubSeq(path, 1, Len(library.libraryPath))
             THEN Replicate([ev |-> signal, library |-> library.libraryName,
                             libraryPath |-> library.libraryPath, path |-> path],
                            library.watchers * library.listeners)
             ELSE <<>>)
            \o Invocations(lm, Tail(names), signal, path)

\* the file system reports a file event under a root, after start has returned
LibraryFileEvent ==
    /\ startup.pc = "signalFinished"
    /\ \E root \in LibraryRoots, mediaPath \in MediaPaths,
          signal \in {"fileAdded", "fileChanged", "fileRemoved"} :
        /\ existsSync(root)
        /\ Invocations(libraryManager, libraryManager.libraries, signal,
                       join(root, mediaPath)) # <<>>
        /\ emitted' = <<[ev |-> "file event", path |-> join(root, mediaPath)]>>
                          \o Invocations(libraryManager, libraryManager.libraries,
                                         signal, join(root, mediaPath))
    /\ UNCHANGED <<destJob, tempFiles, instances, numActions, jobs, activeJobs, serverActiveJobs, tasks,
                   history, files, probes, pluginManager, pluginObjects, startup, user,
                   libraryManager, shuttingDown>>

\* api.signalFinished(): the start has come to its end
SignalFinished ==
    /\ \/ PluginsInitialized /\ libraryManager.config = <<>>
       \/ /\ startup.pc = "loadLibraries"
          /\ libraryManager.index = Len(libraryManager.config)
    /\ startup' = [startup EXCEPT !.pc = "signalFinished"]
    /\ emitted' = <<StepOfStartup("signalFinished", Undefined, Undefined, "", Undefined)>>
    /\ UNCHANGED <<destJob, tempFiles, user, libraryManager, shuttingDown, instances, numActions, jobs, activeJobs, serverActiveJobs, tasks,
                   history, files, probes, pluginManager, pluginObjects>>

NextPlugins ==
    LoadInstalledPlugin \/ InitializeNextPlugin \/ LoadNextJobAction \/ SignalFinished

SpecPlugins == InitPlugins /\ [][NextPlugins]_vars

\* Plugin code calls api.registerJobAction while no initializer executes: the
\* main module of the plugin that initializeInstalledPlugins loads next, with
\* a handle that an initializer before it has left in a module they share (the
\* call arrives at require(), before the load changes anything else), or any
\* plugin code after initializeInstalledPlugins has returned.
RegisterJobActionOutside ==
    /\ \/ /\ startup.pc = "initializeInstalledPlugins"
          /\ ToInitialize(CurPlugins) # <<>>
          /\ pluginObjects[ToInitialize(CurPlugins)[1]].engines
       \/ startup.pc \notin {"loadInstalledPlugins", "initializeInstalledPlugins"}
    /\ \E name \in JobActionNames :
        LET s1 == registerJobAction(CurPlugins, name)
        IN /\ CommitPlugins(s1)
           /\ emitted' = <<StepOfStartup("registerJobAction",
                                         pluginManager.currentInitializingPlugin, name,
                                         IF s1.thrown THEN "raised" ELSE "registered",
                                         Undefined)>>
           /\ UNCHANGED <<destJob, tempFiles, user, libraryManager, shuttingDown, instances, numActions, jobs, activeJobs, serverActiveJobs,
                          tasks, history, files, probes, startup>>

NextRegistration ==
    \/ LoadInstalledPlugin
    \/ InitializeNextPlugin
    \/ LoadNextJobAction
    \/ SignalFinished
    \/ RegisterJobActionOutside

SpecRegistration == InitPlugins /\ [][NextRegistration]_vars

\* The plugin identifiers an initializer may pass as a third argument of
\* api.registerJobAction: none, that of an installed plugin, or a misspelt one.
DeclaredIdentifiers == {Undefined, <<"compressarr-x">>} \cup PluginIdentifiers

\* CompressarrAPI.registerJobAction(jobActionName, constructor): of the
\* arguments of each call the bus event is given the name and the constructor
ArgumentsEmitted(calls) == [k \in 1..Len(calls) |-> calls[k].name]

\* initializeInstalledPlugins visits the next plugin of the registry, whose
\* initializer declares a plugin identifier with its registrations
InitializeNextPluginDeclaring ==
    /\ startup.pc \in {"loadInstalledPlugins", "initializeInstalledPlugins"}
    /\ ToInitialize(CurPlugins) # <<>>
    /\ \E module \in Modules, listed \in BOOLEAN, raises \in BOOLEAN,
          calls \in SeqsUpTo([name : JobActionNames,
                              pluginIdentifier : DeclaredIdentifiers], MaxRegistrations) :
        LET identifier == ToInitialize(CurPlugins)[1]
            last == Len(ToInitialize(CurPlugins)) = 1
            s1 == InitializeInstalledPlugin(CurPlugins, identifier, module, listed,
                                            ArgumentsEmitted(calls), raises)
        IN /\ CommitPlugins(IF last
                            THEN [s1 EXCEPT !.currentInitializingPlugin = Undefined]
                            ELSE s1)
           /\ startup' = [startup EXCEPT !.pc = IF last THEN "loadJobActions"
                                                ELSE "initializeInstalledPlugins"]
           /\ emitted' = <<StepOfStartup("initializePlugin", identifier, Undefined,
                                         IF s1.caught THEN "raised" ELSE "initialized",
                                         Undefined) @@ ("calls" :> calls)>>
           /\ UNCHANGED <<destJob, tempFiles, user, libraryManager, shuttingDown, instances, numActions, jobs, activeJobs, serverActiveJobs,
                          tasks, history, files, probes>>

NextDeclaring ==
    \/ LoadInstalledPlugin
    \/ InitializeNextPluginDeclaring
    \/ LoadNextJobAction
    \/ SignalFinished

SpecDeclaring == InitPlugins /\ [][NextDeclaring]_vars

(***************************************************************************)
(* The destination of a Job (src/unnamed/part_002, Job.getDestPath,        *)
(* Job.nextAvailableDest, Job.setPath).  A job action asks the Job it was  *)
(* given for a destination, with or without an extension, and may set the  *)
(* path of the Job; files named <name>-<i> appear in the temporary         *)
(* directory and the directory is removed.  An extension is the sequence   *)
(* of its tokens, the dot being a token of its own.                        *)
(***************************************************************************)
\* the largest suffix i of a file <name>-<i> that exists
MaxSuffix == 2

\* the number of frames the call stack holds before a RangeError is thrown
MaxStack == 3

\* the extensions a job action asks with: none, '', 'mkv', '.mkv', '..mkv'
Extensions == {<<>>, <<"mkv">>, <<".", "mkv">>, <<".", ".", "mkv">>}

\* join(path, `${this.name}-${i}`)
DestOf(job, i) == [dir |-> job.tempPath, name |-> job.name, i |-> i]

\* i++ : the value of the expression is the value i had, and i is one more
PostIncrement(i) == [value |-> i, i |-> i + 1]

\* Job.nextAvailableDest(path, i), called with `depth` frames on the stack
RECURSIVE nextAvailableDest(_, _, _, _)
nextAvailableDest(job, existing, i, depth) ==
    IF depth > MaxStack THEN [dest |-> <<>>, thrown |-> TRUE]
    ELSE IF i \in existing
         THEN nextAvailableDest(job, existing, PostIncrement(i).value, depth + 1)
         ELSE [dest |-> <<DestOf(job, i)>>, thrown |-> FALSE]

\* ext.replace(/^\.+/, ''): the extension without its leading dots
RECURSIVE StripLeadingDots(_)
StripLeadingDots(ext) ==
    IF ext # <<>> /\ Head(ext) = "." THEN StripLeadingDots(Tail(ext)) ELSE ext

\* Job.getDestPath(ext): the Job afterwards and the path returned, which is the
\* allocated destination followed by the tokens of `rest`.  The value of
\* ext.replace is not assigned, so `ext` is concatenated as it was given.
getDestPath(job, existing, ext) ==
    LET allocated == IF job.tempDestPath = Undefined
                     THEN nextAvailableDest(job, existing, 1, 1)
                     ELSE [dest |-> job.tempDestPath, thrown |-> FALSE]
    IN  IF allocated.thrown
        THEN [job |-> job, path |-> <<>>, thrown |-> TRUE]
        ELSE [job |-> [job EXCEPT !.tempDestPath = allocated.dest],
              path |-> <<[dest |-> allocated.dest[1],
                          rest |-> IF ext # <<>> THEN <<".">> \o ext ELSE <<>>]>>,
              thrown |-> FALSE]

\* the Server has constructed a Job for a media file, and files are left in
\* its temporary directory (a killed run returns before rimraf)
InitJob ==
    /\ instances = InstancesOf(0)
    /\ numActions = 0
    /\ jobs = <<>>
    /\ activeJobs = EmptyMap
    /\ serverActiveJobs = EmptyMap
    /\ tasks = EmptyBag
    /\ emitted = <<>>
    /\ history = FALSE
    /\ files = {}
    /\ probes = {}
    /\ pluginManager = NewPluginManager(NoOptions)
    /\ pluginObjects = EmptyMap
    /\ startup = NewStartup
    /\ user = NewUser
    /\ libraryManager = NewLibraryManager
    /\ shuttingDown = FALSE
    /\ \E root \in LibraryPaths, media \in MediaPaths :
           destJob = <<[job |-> NewJob(MakeJobConfig(root, media)),
                        requested |-> FALSE]>>
    /\ tempFiles \in SUBSET (1..MaxSuffix)

\* a job action calls job.getDestPath(ext)
GetDestPath ==
    \E ext \in Extensions :
        LET r == getDestPath(destJob[1].job, tempFiles, ext)
        IN  /\ destJob' = <<[job |-> r.job, requested |-> TRUE]>>
            /\ emitted' = <<[ev |-> "getDestPath", ext |-> ext, path |-> r.path,
                             thrown |-> r.thrown, first |-> ~destJob[1].requested,
                             existing |-> tempFiles]>>
            /\ UNCHANGED <<tempFiles, instances, numActions, jobs, activeJobs,
                           serverActiveJobs, tasks, history, files, probes, pluginManager,
                           pluginObjects, startup, user, libraryManager, shuttingDown>>

\* a job action calls job.setPath(path)
SetPath ==
    /\ destJob' = <<[destJob[1] EXCEPT !.job = setPath(@, ArtifactName)]>>
    /\ emitted' = <<[ev |-> "setPath", path |-> ArtifactName]>>
    /\ UNCHANGED <<tempFiles, instances, numActions, jobs, activeJobs, serverActiveJobs,
                   tasks, history, files, probes, pluginManager, pluginObjects, startup,
                   user, libraryManager, shuttingDown>>

\* a job action writes the file <name>-<i> into the temporary directory
WriteDest ==
    \E i \in 1..MaxSuffix :
        /\ i \notin tempFiles
        /\ tempFiles' = tempFiles \cup {i}
        /\ emitted' = <<[ev |-> "write", i |-> i]>>
        /\ UNCHANGED <<destJob, instances, numActions, jobs, activeJobs, serverActiveJobs,
                       tasks, history, files, probes, pluginManager, pluginObjects,
                       startup, user, libraryManager, shuttingDown>>

\* rimraf(jobConfig.tempPath) of an earlier run completes
RemoveTemp ==
    /\ tempFiles # {}
    /\ tempFiles' = {}
    /\ emitted' = <<[ev |-> "rimraf"]>>
    /\ UNCHANGED <<destJob, instances, numActions, jobs, activeJobs, serverActiveJobs,
                   tasks, history, files, probes, pluginManager, pluginObjects, startup,
                   user, libraryManager, shuttingDown>>

NextJob == GetDestPath \/ SetPath \/ WriteDest \/ RemoveTemp

SpecJob == InitJob /\ [][NextJob]_vars

(***************************************************************************)
(* The job calls of the host API (src/src/plugin.ts, CompressarrAPI        *)
(* registerJob, unregisterJob, publishJob), made by the code of a plugin   *)
(* while the scheduler and the runner work.  Each call is one emit, and    *)
(* the handlers subscribed to the event run before the call returns.       *)
(***************************************************************************)
\* a plugin calls api.registerJob(jobPath, jobConfig): Server subscribes to
\* REGISTER_JOB, JobManager does not
ApiRegisterJob ==
    \E l \in LibraryPaths, m \in MediaPaths :
        LET jobConfig == MakeJobConfig(l, m)
        IN  /\ WithinMaxTasks(registerJob(Cur, jobConfig.srcPath, jobConfig))
            /\ Commit(registerJob(Cur, jobConfig.srcPath, jobConfig))
            /\ UNCHANGED <<destJob, tempFiles, user, libraryManager, shuttingDown, instances,
                           numActions, history, files, probes, pluginManager,
                           pluginObjects, startup>>

\* a plugin calls api.unregisterJob(jobPath): Server subscribes to
\* UNREGISTER_JOB, JobManager does not
ApiUnregisterJob ==
    \E l \in LibraryPaths, m \in MediaPaths :
        /\ Commit(EmitUnregisterJob(Cur, join(l, m)))
        /\ UNCHANGED <<destJob, tempFiles, user, libraryManager, shuttingDown, instances,
                       numActions, history, files, probes, pluginManager, pluginObjects,
                       startup>>

\* a plugin calls api.publishJob(jobPath): JobManager subscribes to PUBLISH_JOB,
\* Server does not
ApiPublishJob ==
    \E l \in LibraryPaths, m \in MediaPaths :
        /\ WithinMaxTasks(publishJob(Emit(Cur, "PUBLISH_JOB", join(l, m)), join(l, m)))
        /\ Commit(publishJob(Emit(Cur, "PUBLISH_JOB", join(l, m)), join(l, m)))
        /\ UNCHANGED <<destJob, tempFiles, user, libraryManager, shuttingDown, instances,
                       numActions, history, files, probes, pluginManager, pluginObjects,
                       startup>>

\* the JobManager of the default configuration (no `instances` option), and a
\* pipeline of up to two action instances
InitApi ==
    /\ instances = InstancesOf(0)
    /\ numActions \in 0..2
    /\ jobs = <<>>
    /\ activeJobs = EmptyMap
    /\ serverActiveJobs = EmptyMap
    /\ tasks = EmptyBag
    /\ emitted = <<>>
    /\ history = FALSE
    /\ files = {}
    /\ probes = {}
    /\ pluginManager = NewPluginManager(NoOptions)
    /\ pluginObjects = EmptyMap
    /\ startup = NewStartup
    /\ user = storagePath(NewUser).user
    /\ libraryManager = NewLibraryManager
    /\ shuttingDown = FALSE
    /\ destJob = NoJob
    /\ tempFiles = {}

NextApi ==
    \/ RegisterMedia
    \/ UpdateMedia
    \/ UnregisterMedia
    \/ StartSettles
    \/ ApiRegisterJob
    \/ ApiUnregisterJob
    \/ ApiPublishJob

SpecApi == InitApi /\ [][NextApi]_vars

(***************************************************************************)
(* The runner replaces a file of a watched library (moveSync in the        *)
(* REGISTER_JOB handler of src/src/server.ts, the watcher of               *)
(* FileService.start in src/src/user.ts).  The library holds one media     *)
(* file, the watcher has reported it and its job is running; from then on  *)
(* nothing but the runner writes into the library.  The watcher reports a  *)
(* replaced file as changed (unlink and add within the atomic window) or   *)
(* as added, and a file that was not there as added.                       *)
(***************************************************************************)
\* the number of segments of the longest path the watcher reports
MaxDepth == 3

\* the media file of the library
WatchedFile == <<Seg("lib", ""), Seg("x", ".mp4")>>

\* the paths at which a step replaced or created a file with moveSync
Moved(trace) == {trace[k].path : k \in {j \in 1..Len(trace) : trace[j].ev = "moveSync"}}

\* fileAdded has published REGISTER_MEDIA for the file and the scheduler has
\* admitted its job
InitReplacement ==
    /\ \E option \in 0..MaxInstances : instances = InstancesOf(option)
    /\ numActions \in 1..MaxActions
    /\ LET st == fileAdded([jobs |-> <<>>, activeJobs |-> EmptyMap,
                            serverActiveJobs |-> EmptyMap, tasks |-> EmptyBag,
                            emitted |-> <<>>], WatchedFile)
       IN  /\ jobs = st.jobs
           /\ activeJobs = st.activeJobs
           /\ serverActiveJobs = st.serverActiveJobs
           /\ tasks = st.tasks
           /\ emitted = st.emitted
    /\ history = FALSE
    /\ files = {WatchedFile}
    /\ probes = {}
    /\ pluginManager = NewPluginManager(NoOptions)
    /\ pluginObjects = EmptyMap
    /\ startup = NewStartup
    /\ user = storagePath(NewUser).user
    /\ libraryManager = NewLibraryManager
    /\ shuttingDown = FALSE
    /\ destJob = NoJob
    /\ tempFiles = {}

\* the start() a suspended invocation awaits settles; where the invocation
\* moves its result into the library, the watcher calls fileChanged or
\* fileAdded with the path, and the handler awaits getInfo(path)
StartSettlesWatched ==
    \E task \in BagToSet(tasks), outcome \in Outcomes :
        LET st == AfterStart(Cur, task, outcome)
            moved == Moved(st.emitted)
        IN  /\ outcome = "KillError" => task.killed
            /\ Commit(st)
            /\ files' = files \cup moved
            /\ \E signal \in [moved -> {"add", "change"}] :
                   /\ \A path \in moved : signal[path] = "change" => path \in files
                   /\ probes' = probes \cup
                          {[signal |-> signal[path], path |-> path] :
                               path \in {p \in moved : Len(p) <= MaxDepth}}
            /\ UNCHANGED <<destJob, tempFiles, user, libraryManager, shuttingDown,
                           instances, numActions, history, pluginManager, pluginObjects,
                           startup>>

NextReplacement == StartSettlesWatched \/ GetInfoSettles

SpecReplacement == InitReplacement /\ [][NextReplacement]_vars

(***************************************************************************)
(* Discovery alone (PluginManager.loadInstalledPlugins) under every option *)
(* of the PluginManager: a custom plugin path of each kind before the      *)
(* default path, and an allow-list of plugins.                             *)
(***************************************************************************)
InitDiscovery ==
    /\ instances = InstancesOf(0)
    /\ numActions = 0
    /\ jobs = <<>>
    /\ activeJobs = EmptyMap
    /\ serverActiveJobs = EmptyMap
    /\ tasks = EmptyBag
    /\ emitted = <<>>
    /\ history = FALSE
    /\ files = {}
    /\ probes = {}
    /\ pluginManager \in { NewPluginManager(options) : options \in PluginManagerOptions }
    /\ pluginObjects = EmptyMap
    /\ startup = NewStartup
    /\ user = storagePath(NewUser).user
    /\ libraryManager = NewLibraryManager
    /\ shuttingDown = FALSE
    /\ destJob = NoJob
    /\ tempFiles = {}

NextDiscovery == LoadInstalledPlugin

SpecDiscovery == InitDiscovery /\ [][NextDiscovery]_vars

\* initializeInstalledPlugins as a whole, with no allow-list and a custom
\* plugin path of any kind or none: the discovery, then the load and the
\* initialization of what it found
InitInstalledPlugins ==
    /\ instances = InstancesOf(0)
    /\ numActions = 0
    /\ jobs = <<>>
    /\ activeJobs = EmptyMap
    /\ serverActiveJobs = EmptyMap
    /\ tasks = EmptyBag
    /\ emitted = <<>>
    /\ history = FALSE
    /\ files = {}
    /\ probes = {}
    /\ pluginManager \in { NewPluginManager(options) :
                               options \in { o \in PluginManagerOptions :
                                                 ~o.activePlugins.defined } }
    /\ pluginObjects = EmptyMap
    /\ startup = NewStartup
    /\ user = storagePath(NewUser).user
    /\ libraryManager = NewLibraryManager
    /\ shuttingDown = FALSE
    /\ destJob = NoJob
    /\ tempFiles = {}

NextInstalledPlugins == LoadInstalledPlugin \/ InitializeNextPlugin

SpecInstalledPlugins == InitInstalledPlugins /\ [][NextInstalledPlugins]_vars

(***************************************************************************)
(* The libraries (LibraryManager.initializeLibraries, Server.loadLibraries *)
(* and the file events of the watchers) of a host that finds no plugin and *)
(* has no job action configured, under every config.libraries of at most   *)
(* MaxLibraries entries and every disabledLibraries.                       *)
(***************************************************************************)
InitLibraryManager ==
    /\ instances = InstancesOf(0)
    /\ numActions = 0
    /\ jobs = <<>>
    /\ activeJobs = EmptyMap
    /\ serverActiveJobs = EmptyMap
    /\ tasks = EmptyBag
    /\ emitted = <<>>
    /\ history = FALSE
    /\ files = {}
    /\ probes = {}
    /\ pluginManager = NewPluginManager(NoOptions)
    /\ pluginObjects = EmptyMap
    /\ startup = NewStartup
    /\ user = storagePath(NewUser).user
    /\ libraryManager \in { LibraryManagerOf(configs, disabledLibraries) :
                                configs \in SeqsUpTo(LibraryConfigs, MaxLibraries),
                                disabledLibraries \in SUBSET LibraryNames }
    /\ shuttingDown = FALSE
    /\ destJob = NoJob
    /\ tempFiles = {}

NextLibraryManager ==
    InitializeLibraries \/ LoadNextLibrary \/ SignalFinished \/ LibraryFileEvent

SpecLibraryManager == InitLibraryManager /\ [][NextLibraryManager]_vars

(***************************************************************************)
(* The whole of Server.start for a host whose allow-list names one plugin  *)
(* and whose config.libraries is one of StartConfigs.                      *)
(***************************************************************************)
StartConfigs ==
    { <<[library |-> <<Seg("lib", "")>>, name |-> <<"movies">>]>>,
      <<[library |-> <<Seg("lib", "")>>, name |-> <<"movies">>],
        [library |-> <<Seg("lib2", "")>>, name |-> <<"shows">>]>> }

InitStart ==
    /\ instances = InstancesOf(0)
    /\ numActions = 0
    /\ jobs = <<>>
    /\ activeJobs = EmptyMap
    /\ serverActiveJobs = EmptyMap
    /\ tasks = EmptyBag
    /\ emitted = <<>>
    /\ history = FALSE
    /\ files = {}
    /\ probes = {}
    /\ pluginManager =
           NewPluginManager([NoOptions EXCEPT !.activePlugins =
                                [defined |-> TRUE, includes |-> {<<PluginNames[1]>>}]])
    /\ pluginObjects = EmptyMap
    /\ startup = NewStartup
    /\ user = storagePath(NewUser).user
    /\ libraryManager \in { LibraryManagerOf(configs, disabledLibraries) :
                                configs \in StartConfigs,
                                disabledLibraries \in {{}, {<<"shows">>}} }
    /\ shuttingDown = FALSE
    /\ destJob = NoJob
    /\ tempFiles = {}

NextStart ==
    \/ LoadInstalledPlugin
    \/ InitializeNextPlugin
    \/ InitializeLibraries
    \/ LoadNextJobAction
    \/ LoadNextLibrary
    \/ SignalFinished
    \/ LibraryFileEvent

SpecStart == InitStart /\ [][NextStart]_vars

(***************************************************************************)
(* The storage root (User): the cli and the plugins read the paths of User *)
(* and try to set the storage root, in any order.                          *)
(***************************************************************************)
InitUser ==
    /\ instances = InstancesOf(0)
    /\ numActions = 0
    /\ jobs = <<>>
    /\ activeJobs = EmptyMap
    /\ serverActiveJobs = EmptyMap
    /\ tasks = EmptyBag
    /\ emitted = <<>>
    /\ history = FALSE
    /\ files = {}
    /\ probes = {}
    /\ pluginManager = NewPluginManager(NoOptions)
    /\ pluginObjects = EmptyMap
    /\ startup = NewStartup
    /\ user = NewUser
    /\ libraryManager = NewLibraryManager
    /\ shuttingDown = FALSE
    /\ destJob = NoJob
    /\ tempFiles = {}

\* one entry of `emitted` for a call of User: the method, the segments it was
\* given, what it returned and whether it threw
CallOfUser(ev, segments, r) ==
    [ev |-> ev, segments |-> segments, value |-> r.value, thrown |-> r.thrown]

\* a caller reads one of the paths of User
ReadUserPath ==
    \E reader \in PathReaders :
        /\ user' = ReadPath(user, reader).user
        /\ emitted' = <<CallOfUser(reader, <<>>, ReadPath(user, reader))>>
        /\ UNCHANGED <<destJob, tempFiles, instances, numActions, jobs, activeJobs, serverActiveJobs, tasks,
                       history, files, probes, pluginManager, pluginObjects, startup,
                       libraryManager, shuttingDown>>

\* a caller sets the storage root
SetStoragePath ==
    \E segments \in SeqsUpTo(PathSegments, MaxSegments) :
        /\ user' = setStoragePath(user, segments).user
        /\ emitted' = <<CallOfUser("setStoragePath", segments,
                                   setStoragePath(user, segments))>>
        /\ UNCHANGED <<destJob, tempFiles, instances, numActions, jobs, activeJobs, serverActiveJobs, tasks,
                       history, files, probes, pluginManager, pluginObjects, startup,
                       libraryManager, shuttingDown>>

NextUser == ReadUserPath \/ SetStoragePath

SpecUser == InitUser /\ [][NextUser]_vars

(***************************************************************************)
(* The signal handler of the cli (src/unnamed/part_001) and                *)
(* Server.teardown (src/src/server.ts), while the scheduler and the        *)
(* runner work.                                                            *)
(***************************************************************************)
\* the signals the cli subscribes to
Signals == {"SIGINT", "SIGTERM"}

\* Server.teardown: its body is empty
teardown(st) == st

\* signalHandler: nothing when the shutdown has begun; otherwise it sets the
\* flag, arms the forced exit and calls server.teardown()
signalHandler(st, down, signal) ==
    IF down
    THEN [st |-> Record(st, "signal", Undefined, 0, signal), shuttingDown |-> TRUE]
    ELSE [st |-> teardown(Record(st, "signal", Undefined, 0, signal)),
          shuttingDown |-> TRUE]

\* the process receives SIGINT or SIGTERM
SignalHandler ==
    \E signal \in Signals :
        /\ Commit(signalHandler(Cur, shuttingDown, signal).st)
        /\ shuttingDown' = signalHandler(Cur, shuttingDown, signal).shuttingDown
        /\ UNCHANGED <<destJob, tempFiles, user, libraryManager, instances, numActions, history, files, probes, pluginManager, pluginObjects, startup>>

NextShutdown == RegisterMedia \/ UpdateMedia \/ UnregisterMedia \/ StartSettles
                    \/ SignalHandler

SpecShutdown == Init /\ [][NextShutdown]_vars

(***************************************************************************)
(* Properties.  `emitted` is read as the record of the step that led to    *)
(* the state: emitted[1] is the event that triggered it.                   *)
(***************************************************************************)
\* the step was the delivery of the bus event `ev`
TriggeredBy(ev) == Len(emitted) > 0 /\ emitted[1].ev = ev

\* the step was the settling of an awaited start() with this outcome
Settled(outcome) == TriggeredBy("settle") /\ emitted[1].what = outcome

\* the indices of `emitted` after k
After(k) == (k + 1)..Len(emitted)

\* the suspended runners of a path that no kill() has asked to stop
Runners(path) ==
    LET counts(task) == task.path = path /\ ~task.killed
    IN CopiesIn(TRUE, BagOfAll(counts, tasks))

\* C1: in every reachable state the number of entries of the scheduler's
\* active table is at most `instances`.
C1_ActiveWithinInstances == Cardinality(DOMAIN activeJobs) <= instances

\* C1: with instances = 2 the active table is full and a media event for a
\* path that is already active has left an entry pending.
C1_Witness ==
    /\ instances = 2
    /\ Cardinality(DOMAIN activeJobs) = 2
    /\ JobsKeys(jobs) \cap DOMAIN activeJobs # {}

\* C2: no source path is in the pending table and in the active table at the
\* same time.
C2_PendingActiveDisjoint == JobsKeys(jobs) \cap DOMAIN activeJobs = {}

\* C3: every path in the active table has exactly one runner that has not been
\* asked to stop, and a runner that was asked to stop starts no further action
\* and publishes nothing when its start() settles.
C3_OneRunnerPerActiveJob ==
    /\ \A path \in DOMAIN activeJobs : Runners(path) = 1
    /\ (TriggeredBy("settle") /\ emitted[1].killed) =>
           \A k \in After(1) : emitted[k].ev \notin {"start", "PUBLISH_JOB"}

\* C4: at most `instances` runners are unfinished at any time, even when the
\* runners that were asked to stop are left out of the count.
C4_RunnersWithinInstances ==
    CopiesIn(FALSE, BagOfAll(LAMBDA task : task.killed, tasks)) <= instances

\* C5: after any handler of the scheduler has finished it is not the case that
\* the pending table is non-empty while the active table has a free slot.
C5_NoIdleSlotWhilePending ==
    ~(Len(jobs) > 0 /\ Cardinality(DOMAIN activeJobs) < instances)

\* C5: a PUBLISH_JOB freed a slot and the scheduler admitted a waiting path in
\* the same step.
C5_Witness ==
    \E k \in DOMAIN emitted :
        /\ emitted[k].ev = "PUBLISH_JOB"
        /\ \E l \in After(k) : emitted[l].ev = "admit" /\ emitted[l].path # emitted[k].path

C7_FailedJobAbandoned ==
    Settled("Error") =>
        \A k \in After(1) : emitted[k].ev \notin {"start", "moveSync", "PUBLISH_JOB"}

\* C8: when a job reaches a terminal state (its runner returns, or an action of
\* it fails with an error other than KillError) its entry has left the active
\* table, unless the path was admitted again afterwards.
C8_TerminalReleasesSlot ==
    \A k \in DOMAIN emitted :
        LET terminal == \/ emitted[k].ev = "return"
                        \/ emitted[k].ev = "settle" /\ emitted[k].what = "Error"
            path == emitted[k].path
        IN (terminal /\ ~emitted[1].killed) =>
               \/ ~MapHas(activeJobs, path)
               \/ \E l \in After(k) : emitted[l].ev = "REGISTER_JOB" /\ emitted[l].path = path

\* C9: when start() fails with KillError the runner returns at once: it starts
\* no further action, moves no file and publishes no PUBLISH_JOB.
C9_KilledRunnerStops ==
    Settled("KillError") =>
        /\ \A k \in After(1) : emitted[k].ev \notin {"start", "moveSync", "PUBLISH_JOB"}
        /\ emitted[Len(emitted)].ev = "return"

\* C9: a start() failed with KillError while the path was registered with the
\* runner again and an action was left to start.
C9_Witness ==
    /\ Settled("KillError")
    /\ MapHas(serverActiveJobs, emitted[1].path)
    /\ emitted[1].i < numActions

\* C10: on UPDATE_MEDIA for an active path the scheduler has removed the active
\* entry and inserted the path into pending when it publishes UNREGISTER_JOB;
\* afterwards the path waits in pending for a slot, or REGISTER_JOB was published
\* for it again and started a fresh job whose source is the original path.
C10_UpdateRestartsActiveJob ==
    (TriggeredBy("UPDATE_MEDIA") /\ emitted[1].schedActive) =>
        LET path == emitted[1].path
            fresh(task) == /\ task.path = path
                           /\ task.step = 1
                           /\ ~task.killed
                           /\ getSrcPath(task.job) = path
        IN /\ emitted[2].ev = "UNREGISTER_JOB"
           /\ emitted[2].path = path
           /\ ~emitted[2].schedActive
           /\ emitted[2].schedPending
           /\ \/ /\ JobsHas(jobs, path)
                 /\ ~MapHas(activeJobs, path)
                 /\ Cardinality(DOMAIN activeJobs) >= instances
              \/ /\ \E k \in After(2) : emitted[k].ev = "REGISTER_JOB" /\ emitted[k].path = path
                 /\ \A k \in After(2) : emitted[k].ev # "moveSync"
                 /\ numActions > 0 => \E task \in BagToSet(tasks) : fresh(task)

\* C10: an active path was updated and admitted again in the same step, while
\* the runner of the job it replaced is still suspended.
C10_Witness ==
    /\ TriggeredBy("UPDATE_MEDIA")
    /\ emitted[1].schedActive
    /\ \E k \in After(2) : emitted[k].ev = "REGISTER_JOB" /\ emitted[k].path = emitted[1].path
    /\ \E task \in BagToSet(tasks) : task.path = emitted[1].path /\ task.killed

\* C11: no start() is invoked for a job after its active entry has been removed:
\* an UNREGISTER_MEDIA step starts nothing for its path, and a runner whose
\* entry was removed while it awaited start() (kill was called for it) does not
\* start its next action when that start() settles.
C11_NoStartAfterEntryRemoved ==
    /\ TriggeredBy("UNREGISTER_MEDIA") =>
           \A k \in After(1) :
               ~(emitted[k].ev = "start" /\ emitted[k].path = emitted[1].path)
    /\ (TriggeredBy("settle") /\ emitted[1].killed) =>
           \A k \in After(1) :
               ~(/\ emitted[k].ev = "start"
                 /\ emitted[k].path = emitted[1].path
                 /\ emitted[k].i = emitted[1].i + 1)

\* PUBLISH_JOB(path) is among the events of a step
PublishedIn(trace, path) ==
    \E k \in DOMAIN trace : trace[k].ev = "PUBLISH_JOB" /\ trace[k].path = path

\* C12 as stated: when REGISTER_MEDIA for a path is followed by UNREGISTER_MEDIA
\* for the same path, neither step publishes PUBLISH_JOB for the path, the path is
\* afterwards in neither table, and no runner of the path can publish it.
C12_RegisterThenUnregister ==
    [][(/\ TriggeredBy("REGISTER_MEDIA")
        /\ Len(emitted') > 0
        /\ emitted'[1].ev = "UNREGISTER_MEDIA"
        /\ emitted'[1].path = emitted[1].path) =>
           LET path == emitted[1].path
           IN /\ ~PublishedIn(emitted, path)
              /\ ~PublishedIn(emitted', path)
              /\ ~JobsHas(jobs', path)
              /\ ~MapHas(activeJobs', path)
              /\ \A task \in BagToSet(tasks'), outcome \in Outcomes :
                     task.path = path =>
                         ~PublishedIn(AfterStart(Cur', task, outcome).emitted, path)]_vars

\* C12, amended: an UNREGISTER_MEDIA leaves its path in neither table and not
\* registered with the runner and publishes no PUBLISH_JOB for it, and a runner
\* whose path is not registered with the runner publishes nothing, however its
\* start() settles.
C12_UnregisterCancels ==
    /\ TriggeredBy("UNREGISTER_MEDIA") =>
           LET path == emitted[1].path
           IN /\ ~JobsHas(jobs, path)
              /\ ~MapHas(activeJobs, path)
              /\ ~MapHas(serverActiveJobs, path)
              /\ ~PublishedIn(emitted, path)
    /\ \A task \in BagToSet(tasks), outcome \in Outcomes :
           ~MapHas(serverActiveJobs, task.path) =>
               ~PublishedIn(AfterStart(Cur, task, outcome).emitted, task.path)

\* C12: UNREGISTER_MEDIA arrived for a path that had been admitted, and the
\* runner of its job is still suspended.
C12_Witness ==
    /\ TriggeredBy("UNREGISTER_MEDIA")
    /\ emitted[1].schedActive
    /\ \E task \in BagToSet(tasks) : task.path = emitted[1].path /\ task.killed

\* the step admitted the path
AdmittedIn(trace, path) ==
    \E k \in DOMAIN trace : trace[k].ev = "admit" /\ trace[k].path = path

\* C13: after a REGISTER_MEDIA that did not lead to the admission of its path,
\* the pending table holds exactly one entry for the path, also when an earlier
\* REGISTER_MEDIA had inserted it already, and the entry holds the JobConfig of
\* this, later, event.
C13_DuplicateRegisterKeepsLatest ==
    (TriggeredBy("REGISTER_MEDIA") /\ ~AdmittedIn(emitted, emitted[1].path)) =>
        LET path == emitted[1].path
            entries == {i \in 1..Len(jobs) : jobs[i].key = path}
        IN /\ Cardinality(entries) = 1
           /\ \A i \in entries :
                  jobs[i].cfg = MakeJobConfig(emitted[1].libraryPath, emitted[1].mediaPath)

\* C13: a second REGISTER_MEDIA arrived for /lib/a/x.mp4 while it was pending
\* and not active, from the library /lib/a, and the path is still pending.
C13_Witness ==
    /\ TriggeredBy("REGISTER_MEDIA")
    /\ emitted[1].schedPending
    /\ ~emitted[1].schedActive
    /\ ~AdmittedIn(emitted, emitted[1].path)
    /\ emitted[1].mediaPath = <<Seg("x", ".mp4")>>
    /\ emitted[1].libraryPath = <<Seg("lib", ""), Seg("a", "")>>

\* C14: the file at the source path of a published job is replaced at most once
\* between the beginning of the job and its PUBLISH_JOB: a runner that moves its
\* result onto the path (and then publishes) has seen no other replacement of
\* the file since its REGISTER_JOB.
C14_SourceReplacedAtMostOnce ==
    \A k \in DOMAIN emitted : emitted[k].ev = "moveSync" => ~emitted[k].replaced

\* C15: PUBLISH_JOB is published for a job only when the start() of every
\* configured action has settled for it and, if the current source of the job
\* differs from the original path, right after that source was moved onto the
\* path (and the temp directory removed); after the step the path is in neither
\* table of the scheduler.
C15_PublishAfterActionsAndMove ==
    \A k \in DOMAIN emitted :
        emitted[k].ev = "PUBLISH_JOB" =>
            /\ emitted[k].i = numActions
            /\ emitted[k].source # emitted[k].path =>
                   /\ k > 2
                   /\ emitted[k - 2].ev = "moveSync"
                   /\ emitted[k - 2].path = emitted[k].path
                   /\ emitted[k - 1].ev = "rimraf"
            /\ ~JobsHas(jobs, emitted[k].path)
            /\ ~MapHas(activeJobs, emitted[k].path)

\* C15: a job with two actions was published whose source had been rewritten by
\* an action, while the path was waiting in the pending table as well.
C15_Witness ==
    \E k \in DOMAIN emitted :
        /\ emitted[k].ev = "PUBLISH_JOB"
        /\ emitted[k].i = 2
        /\ emitted[k].source # emitted[k].path
        /\ emitted[k].schedPending

\* C16: a REGISTER_JOB that admits the path of the REGISTER_MEDIA(libRoot, rel) of
\* the same step has the key libRoot (+) rel and a JobConfig with srcPath equal to
\* the key, name equal to the stem of rel and tempPath equal to the job root (+)
\* the directory of rel (+) the stem of rel; for /lib and x.mp4 that is srcPath
\* /lib/x.mp4, name x, tempPath /s/jobs/x.
C16_JobConfigOfRegisterMedia ==
    TriggeredBy("REGISTER_MEDIA") =>
        LET libRoot == emitted[1].libraryPath
            rel == emitted[1].mediaPath
            stem == rel[Len(rel)].stem
            expected == [name |-> stem,
                         srcPath |-> libRoot \o rel,
                         tempPath |-> <<Seg("s", ""), Seg("jobs", "")>>
                                          \o SubSeq(rel, 1, Len(rel) - 1)
                                          \o <<Seg(stem, "")>>]
        IN /\ emitted[1].path = libRoot \o rel
           /\ \A k \in After(1) :
                  (emitted[k].ev = "REGISTER_JOB" /\ emitted[k].path = emitted[1].path) =>
                      /\ emitted[k].cfg = expected
                      /\ (libRoot = <<Seg("lib", "")>> /\ rel = <<Seg("x", ".mp4")>>) =>
                             emitted[k].cfg =
                                 [name |-> "x",
                                  srcPath |-> <<Seg("lib", ""), Seg("x", ".mp4")>>,
                                  tempPath |-> <<Seg("s", ""), Seg("jobs", ""), Seg("x", "")>>]

\* C16: REGISTER_MEDIA(/lib, a/x.mp4), whose relative path has a directory,
\* admitted its path.
C16_Witness ==
    /\ TriggeredBy("REGISTER_MEDIA")
    /\ emitted[1].libraryPath = <<Seg("lib", "")>>
    /\ emitted[1].mediaPath = <<Seg("a", ""), Seg("x", ".mp4")>>
    /\ \E k \in After(1) : emitted[k].ev = "REGISTER_JOB" /\ emitted[k].path = emitted[1].path

\* C17: the media event a Library publishes for a watcher signal carries the
\* library root and the path relative to it, so that the key the scheduler
\* computes from the payload is the absolute path of the file, whichever of the
\* signals add, change and unlink the file was reported with.
C17_MediaEventCarriesRelativePath ==
    (TriggeredBy("getInfo") /\ Len(emitted) > 1) =>
        /\ emitted[2].libraryPath = libraryPath
        /\ emitted[2].libraryPath \o emitted[2].mediaPath = emitted[1].path
        /\ emitted[2].path = emitted[1].path

\* C18: when the handler of the removal of a file that has a pending or active
\* job has finished, UNREGISTER_MEDIA and UNREGISTER_JOB have been published for
\* the source path of the file and the path is in neither table.
C18_RemovedFileIsUnregistered ==
    (/\ TriggeredBy("getInfo")
     /\ emitted[1].what = "unlink"
     /\ emitted[1].schedActive \/ emitted[1].schedPending) =>
        LET src == emitted[1].path
        IN /\ \E k \in After(1) : emitted[k].ev = "UNREGISTER_MEDIA" /\ emitted[k].path = src
           /\ \E k \in After(1) : emitted[k].ev = "UNREGISTER_JOB" /\ emitted[k].path = src
           /\ ~JobsHas(jobs, src)
           /\ ~MapHas(activeJobs, src)

\* the plugins of the registry, and the identifiers that resolve to a plugin
Registry == { pluginManager.plugins[k] : k \in 1..Len(pluginManager.plugins) }

ResolveTo(plugin) ==
    { identifier \in JobActionIdentifiers :
          getPluginForJobAction(CurPlugins, identifier).plugin = plugin }

\* C19: a plugin whose load or initializer raised an error is absent from the
\* registry, the other plugins stay in it, and once the startup has ended no
\* bare or qualified identifier resolves to a plugin that was dropped, while
\* every plugin of the registry has been loaded and has its initializer.
C19_FailedPluginIsDropped ==
    /\ TriggeredBy("initializePlugin") =>
          /\ emitted[1].result = "raised" => emitted[1].plugin \notin Registry
          /\ \A k \in 1..Len(emitted[1].plugins) :
                emitted[1].plugins[k] # emitted[1].plugin =>
                    emitted[1].plugins[k] \in Registry
    /\ startup.pc = "signalFinished" =>
          /\ \A plugin \in DOMAIN pluginObjects \ Registry : ResolveTo(plugin) = {}
          /\ \A plugin \in Registry :
                /\ ~pluginObjects[plugin].loadContext
                /\ pluginObjects[plugin].pluginInitializer

\* the enabled plugins of the registry that registered the action name
EnabledRegistrants(name) ==
    { plugin \in Registry :
          /\ ~pluginObjects[plugin].disabled
          /\ name \in pluginObjects[plugin].registeredJobActions }

AfterInitialization == startup.pc \in {"loadJobActions", "signalFinished", "rejected"}

AmbiguousNames ==
    { name \in JobActionNames :
          AfterInitialization /\ Cardinality(EnabledRegistrants(name)) >= 2 }

\* C20: when two enabled plugins have registered the same action name, the
\* bare name does not resolve and the error lists the qualified identifier of
\* each of them, every such qualified identifier resolves to its own plugin, a
\* config entry with the bare name is skipped without ending loadJobActions,
\* and a config entry with one of the qualified identifiers yields the
\* ActionInstance of that plugin, appended to the instances built so far.
C20_AmbiguousBareNameIsSkipped ==
    \A name \in AmbiguousNames :
        /\ getPluginForJobAction(CurPlugins, name).plugin = Undefined
        /\ getPluginForJobAction(CurPlugins, name).error = "registered multiple times"
        /\ \A plugin \in EnabledRegistrants(name) :
              /\ SeqHas(getPluginForJobAction(CurPlugins, name).options,
                        Qualified(plugin, name))
              /\ getPluginForJobAction(CurPlugins, Qualified(plugin, name))
                     = Resolved(plugin)
        /\ TriggeredBy("loadJobAction") =>
              /\ emitted[1].jobAction = name =>
                    /\ emitted[1].result \in {"not resolved", "missing name"}
                    /\ startup.jobActionsInstances = emitted[1].jobActionsInstances
                    /\ startup.pc = "loadJobActions"
              /\ \A plugin \in EnabledRegistrants(name) :
                    (/\ emitted[1].jobAction = Qualified(plugin, name)
                     /\ emitted[1].result # "constructor raised") =>
                        /\ emitted[1].result = "constructed"
                        /\ startup.jobActionsInstances =
                               Append(emitted[1].jobActionsInstances,
                                      [plugin |-> plugin, jobAction |-> name])

\* an entry with the ambiguous bare name has been skipped after another entry
\* has yielded its instance
C20_Witness ==
    /\ TriggeredBy("loadJobAction")
    /\ emitted[1].jobAction \in AmbiguousNames
    /\ emitted[1].result = "not resolved"
    /\ Len(startup.jobActionsInstances) > 0

\* C21: the identifiers of the registry are unique and each names its own
\* plugin record, and when loadInstalledPlugins comes to a package whose
\* identifier is in the registry already, the package is not loaded and the
\* registry and every plugin record stay as they were.
C21_SecondDiscoveryIsRejected ==
    /\ [](/\ \A j, k \in 1..Len(pluginManager.plugins) :
                pluginManager.plugins[j] = pluginManager.plugins[k] => j = k
          /\ \A plugin \in Registry : pluginObjects[plugin].identifier = plugin)
    /\ [][(/\ emitted' # <<>>
           /\ emitted'[1].ev = "loadPlugin"
           /\ emitted'[1].plugin \in Registry) =>
              /\ emitted'[1].result # "loaded"
              /\ pluginManager' = pluginManager
              /\ pluginObjects' = pluginObjects]_vars

\* a package with the identifier of a plugin of the registry has been found at
\* another path than that plugin, and has been rejected
C21_Witness ==
    /\ TriggeredBy("loadPlugin")
    /\ emitted[1].result = "rejected"
    /\ emitted[1].plugin \in Registry
    /\ emitted[1].path # pluginObjects[emitted[1].plugin].pluginPath

\* C22: no job action instance comes from a disabled plugin: a config entry
\* whose identifier, bare or qualified, resolves to a disabled plugin yields
\* no instance and does not end loadJobActions, while a plugin that is
\* disabled and has been loaded and initialized stays in the registry, and
\* each of its qualified identifiers resolves to it.
C22_DisabledPluginYieldsNoInstance ==
    /\ \A k \in 1..Len(startup.jobActionsInstances) :
          ~pluginObjects[startup.jobActionsInstances[k].plugin].disabled
    /\ (/\ TriggeredBy("loadJobAction")
        /\ emitted[1].resolution.plugin # Undefined
        /\ pluginObjects[emitted[1].resolution.plugin].disabled) =>
          /\ emitted[1].result \in {"disabled", "missing name"}
          /\ startup.jobActionsInstances = emitted[1].jobActionsInstances
          /\ startup.pc = "loadJobActions"
    /\ (/\ TriggeredBy("initializePlugin")
        /\ emitted[1].result = "initialized") => emitted[1].plugin \in Registry
    /\ AfterInitialization =>
          \A plugin \in Registry :
              pluginObjects[plugin].disabled =>
                  /\ ~pluginObjects[plugin].loadContext
                  /\ pluginObjects[plugin].pluginInitializer
                  /\ \A name \in JobActionNames :
                        getPluginForJobAction(CurPlugins, Qualified(plugin, name))
                            = Resolved(plugin)

\* a config entry with the qualified identifier of a disabled plugin that has
\* registered the action has been skipped because the plugin is disabled
C22_Witness ==
    /\ TriggeredBy("loadJobAction")
    /\ emitted[1].result = "disabled"
    /\ ~NoDot(emitted[1].jobAction)
    /\ emitted[1].resolution.plugin \in Registry
    /\ getJobActionName(emitted[1].jobAction)
           \in pluginObjects[emitted[1].resolution.plugin].registeredJobActions

\* C23: when an allow-list of plugins is configured, every plugin of the
\* registry has its identifier in the list, on whichever kind of search path
\* it was found.
C23_OnlyActivePluginsLoaded ==
    pluginManager.activePlugins.defined =>
        \A plugin \in Registry : plugin \in pluginManager.activePlugins.includes

\* the enabled plugins of the registry, last found first
EnabledReversed ==
    LET enabled == SelectSeq(pluginManager.plugins,
                             LAMBDA p : ~pluginObjects[p].disabled)
    IN [k \in 1..Len(enabled) |-> enabled[Len(enabled) + 1 - k]]

RECURSIVE SeqOfSet(_)
SeqOfSet(S) == IF S = {} THEN <<>>
               ELSE LET x == CHOOSE y \in S : TRUE IN <<x>> \o SeqOfSet(S \ {x})

RECURSIVE RegistryOf(_, _)
\* the registry the host builds when it finds the plugins of `todo` in turn,
\* none of them disabled, each registering what it has registered here
RegistryOf(st, todo) ==
    IF todo = <<>> THEN [st EXCEPT !.currentInitializingPlugin = Undefined]
    ELSE LET identifier == Head(todo)
             packageJSON == [readable |-> TRUE, name |-> identifier, keywords |-> TRUE,
                             engines |-> TRUE, peerDependencies |-> "none"]
             s1 == loadPlugin(st, pluginObjects[identifier].pluginPath, packageJSON)
             s2 == InitializeInstalledPlugin(
                       s1, identifier, "function", FALSE,
                       SeqOfSet(pluginObjects[identifier].registeredJobActions), FALSE)
         IN RegistryOf(s2, Tail(todo))

OtherRegistry ==
    RegistryOf([searchPaths |-> pluginManager.searchPaths,
                activePlugins |-> pluginManager.activePlugins,
                plugins |-> <<>>, pluginIdentifierTranslation |-> EmptyMap,
                jobActionToPluginMap |-> NoJobActions,
                currentInitializingPlugin |-> Undefined,
                objects |-> EmptyMap, thrown |-> FALSE, caught |-> FALSE],
               EnabledReversed)

\* C24: once the plugins are initialized, every bare and every qualified
\* identifier resolves to the same plugin, or to an error, as in the registry
\* that holds the same enabled plugins with the same registered action names,
\* found in the reverse order.
C24_ResolutionDependsOnEnabledPluginsOnly ==
    AfterInitialization =>
        \A identifier \in JobActionIdentifiers :
            getPluginForJobAction(CurPlugins, identifier).plugin
                = getPluginForJobAction(OtherRegistry, identifier).plugin

\* the storage root a read of User returns in this state
StorageRoot == storagePath(user).value

\* C25: every read of a path of User marks the storage root as read, and
\* once it is marked every call of setStoragePath throws and leaves the fields
\* of User as they are, so that every later read is made under the same root.
C25_StorageRootFixedOnceRead ==
    [][/\ (emitted' # <<>> /\ emitted'[1].ev \in PathReaders) =>
              /\ user'.storageAccessed
              /\ emitted'[1].value = join(StorageRoot, FileOf(emitted'[1].ev))
       /\ user.storageAccessed =>
              /\ user' = user
              /\ StorageRoot' = StorageRoot
              /\ (emitted' # <<>> /\ emitted'[1].ev = "setStoragePath") =>
                     emitted'[1].thrown]_vars

\* after a read, a call of setStoragePath with another root has thrown
C25_Witness ==
    /\ TriggeredBy("setStoragePath")
    /\ emitted[1].thrown
    /\ user.storageAccessed
    /\ resolve(emitted[1].segments) # StorageRoot

\* the libraries that exist, and the entries of config.libraries with a name
Libraries == { libraryManager.libraries[k] : k \in 1..Len(libraryManager.libraries) }

EntriesNamed(name) ==
    { k \in 1..Len(libraryManager.config) : libraryManager.config[k].name = name }

\* the handler invocations of the last file event that a library made
InvocationsOf(name) == { k \in After(1) : emitted[k].library = name }

\* C26: when config.libraries has two entries with the same name whose roots
\* exist, the Library of that name is that of the first of them, its watcher is
\* started at most once and has been started once when start has returned
\* unless the library is disabled, and a file event under its root makes it
\* publish one media event.
C26_DuplicateLibraryNameRejected ==
    \A name \in LibraryNames :
        (/\ libraryManager.initialized
         /\ Cardinality({ k \in EntriesNamed(name) :
                              existsSync(libraryManager.config[k].library) }) >= 2) =>
            /\ name \in Libraries
            /\ \E k \in EntriesNamed(name) :
                  /\ existsSync(libraryManager.config[k].library)
                  /\ \A j \in EntriesNamed(name) :
                        existsSync(libraryManager.config[j].library) => k <= j
                  /\ libraryManager.objects[name].libraryPath
                         = libraryManager.config[k].library
            /\ libraryManager.objects[name].watchers <= 1
            /\ (startup.pc = "signalFinished" /\ ~libraryManager.objects[name].disabled) =>
                  libraryManager.objects[name].watchers = 1
            /\ (TriggeredBy("file event") /\ InvocationsOf(name) # {}) =>
                  Cardinality(InvocationsOf(name)) = 1

\* C27 as stated: the watcher of a disabled library is never started, and no
\* media event is published for a file under its root.
C27_NoMediaEventUnderDisabledRoot ==
    \A name \in Libraries :
        libraryManager.objects[name].disabled =>
            /\ libraryManager.objects[name].watchers = 0
            /\ TriggeredBy("file event") =>
                  \A k \in After(1) :
                      emitted[k].libraryPath # libraryManager.objects[name].libraryPath

\* C27: a library of the deny-list whose root exists is constructed and
\* flagged, its watcher is never started and no handler is subscribed to its
\* file events, and every media event published for a file comes from a
\* library that is not disabled.
C27_DisabledLibraryPublishesNothing ==
    /\ libraryManager.initialized =>
          /\ \A name \in libraryManager.disabledLibraries :
                (\E k \in EntriesNamed(name) :
                     existsSync(libraryManager.config[k].library)) => name \in Libraries
          /\ \A name \in Libraries :
                libraryManager.objects[name].disabled
                    <=> name \in libraryManager.disabledLibraries
    /\ \A name \in Libraries :
          libraryManager.objects[name].disabled =>
              /\ libraryManager.objects[name].watchers = 0
              /\ libraryManager.objects[name].listeners = 0
    /\ TriggeredBy("file event") =>
          \A k \in After(1) : ~libraryManager.objects[emitted[k].library].disabled

\* a file event under the root of a disabled library has been published by
\* another library of the same root
C27_Witness ==
    /\ TriggeredBy("file event")
    /\ \E name \in Libraries :
          /\ libraryManager.objects[name].disabled
          /\ \E k \in After(1) :
                emitted[k].libraryPath = libraryManager.objects[name].libraryPath

\* a watcher of a library has been started
WatcherStarted == \E name \in Libraries : libraryManager.objects[name].watchers > 0

\* C28: the libraries are constructed, the job action instances are built and
\* the watchers are started only when every plugin of the registry has been
\* loaded and initialized, after which the registry does not change; no
\* instance is added once a watcher has been started; LAUNCH_COMPLETE is
\* signalled at most once, after the last entry of config.libraries has been
\* visited, and nothing of the startup changes after it; and a file event is
\* handled only after it.
C28_StartupIsOrdered ==
    /\ [](/\ startup.pc \in {"loadJobActions", "loadLibraries", "signalFinished"} =>
                /\ ToInitialize(CurPlugins) = <<>>
                /\ pluginManager.currentInitializingPlugin = Undefined
          /\ (libraryManager.initialized \/ startup.jobActionsInstances # <<>>) =>
                startup.pc \in {"loadJobActions", "loadLibraries", "signalFinished",
                                "rejected"}
          /\ WatcherStarted => startup.pc \in {"loadLibraries", "signalFinished"}
          /\ TriggeredBy("file event") => startup.pc = "signalFinished")
    /\ [][/\ startup.pc \in {"loadJobActions", "loadLibraries", "signalFinished"} =>
                pluginManager' = pluginManager /\ pluginObjects' = pluginObjects
          /\ WatcherStarted => startup'.jobActionsInstances = startup.jobActionsInstances
          /\ (emitted' # <<>> /\ emitted'[1].ev = "signalFinished") =>
                /\ startup.pc # "signalFinished"
                /\ libraryManager.index = Len(libraryManager.config)
          /\ startup.pc = "signalFinished" =>
                /\ startup' = startup
                /\ libraryManager' = libraryManager]_vars

\* LAUNCH_COMPLETE has been signalled after an instance was built and a watcher
\* was started
C28_Witness ==
    /\ TriggeredBy("signalFinished")
    /\ startup.pc = "signalFinished"
    /\ startup.jobActionsInstances # <<>>
    /\ WatcherStarted

\* the paths for which the step published UNREGISTER_JOB
Unregistered(trace) ==
    {trace[k].path : k \in {i \in 1..Len(trace) : trace[i].ev = "UNREGISTER_JOB"}}

\* C29: when the host shuts down on a signal, the step of the signal handler
\* publishes SHUTDOWN to the subscribers of the API, publishes UNREGISTER_JOB for
\* every entry of the active table, and leaves no pending job.
C29_ShutdownNotifiesUnregistersAndDrains ==
    [][(~shuttingDown /\ shuttingDown') =>
            /\ \E k \in 1..Len(emitted') : emitted'[k].ev = "SHUTDOWN"
            /\ DOMAIN activeJobs \subseteq Unregistered(emitted')
            /\ jobs' = <<>>]_vars

\* initializeInstalledPlugins has returned: every plugin that was discovered
\* has been loaded, and dropped if its load or its initializer raised
InstalledPluginsInitialized ==
    startup.pc \notin {"loadInstalledPlugins", "initializeInstalledPlugins"}

SchedulerEvents == {"REGISTER_MEDIA", "UPDATE_MEDIA", "UNREGISTER_MEDIA", "PUBLISH_JOB"}

\* The places of a step's trace where a handler of the scheduler is entered.
\* Every such handler ends with its call of next(), and a step is one handler
\* of the scheduler or one resumption of a runner, whose only call into the
\* scheduler is its last statement; so a second entry in a step lies inside
\* the handler entered first.
SchedulerEntries(trace) == { k \in DOMAIN trace : trace[k].ev \in SchedulerEvents }

\* C31 as stated: while a handler of the scheduler for REGISTER_MEDIA,
\* UPDATE_MEDIA, UNREGISTER_MEDIA or PUBLISH_JOB is executing, no other handler
\* of the scheduler is entered.
C31_SchedulerHandlersNeverNested == Cardinality(SchedulerEntries(emitted)) <= 1

\* C31, amended: with one job action or more no handler of the scheduler is
\* entered while another executes; with none, the only handler entered inside
\* another is that of PUBLISH_JOB, for a path that the same step has admitted
\* and registered with the runner just before, and which is then in neither
\* table of the scheduler.
C31_OnlySynchronousPublishIsNested ==
    \A k \in SchedulerEntries(emitted) :
        (\E first \in SchedulerEntries(emitted) : first < k) =>
            /\ numActions = 0
            /\ emitted[k].ev = "PUBLISH_JOB"
            /\ \E j \in 1..(k - 1) :
                   /\ emitted[j].ev = "REGISTER_JOB"
                   /\ emitted[j].path = emitted[k].path
                   /\ \A i \in (j + 1)..(k - 1) : emitted[i].ev \notin SchedulerEvents
            /\ ~emitted[k].schedPending

\* C31: with a job action configured, the PUBLISH_JOB that a resumed runner
\* publishes makes next() admit a pending job, whose runner is started inside
\* the handler of PUBLISH_JOB.
C31_Witness ==
    /\ numActions >= 1
    /\ TriggeredBy("settle")
    /\ \E k \in DOMAIN emitted :
           /\ emitted[k].ev = "PUBLISH_JOB"
           /\ \E j \in (k + 1)..Len(emitted) : emitted[j].ev = "REGISTER_JOB"
           /\ \E j \in (k + 1)..Len(emitted) : emitted[j].ev = "start"

\* the places of a step's trace where a start() is called
Starts(trace) == { k \in DOMAIN trace : trace[k].ev = "start" }

\* the start() at place k is the first of a job that the step registered
StartsNewJob(trace, k) ==
    /\ trace[k].i = 1
    /\ k > 1
    /\ trace[k - 1].ev = "REGISTER_JOB"
    /\ trace[k - 1].path = trace[k].path

\* the start() at place k is the next of the job whose start() settled
StartsNextAction(trace, k) ==
    /\ k = 2
    /\ trace[1].ev = "settle"
    /\ trace[1].path = trace[k].path
    /\ trace[1].what # "KillError"
    /\ trace[k].i = trace[1].i + 1

\* C32: within one job the action instances are started in the order of
\* jobActionsInstances, the first when the job is registered and each next one
\* in the resumption after the start() of the one before has settled; the
\* settled start() is no longer outstanding, so a job has one outstanding
\* start() at most, at an instance that exists.
C32_ActionsStartedInOrderOneAtATime ==
    /\ [](/\ \A k \in Starts(emitted) :
                 /\ emitted[k].i \in 1..numActions
                 /\ StartsNewJob(emitted, k) \/ StartsNextAction(emitted, k)
          /\ \A task \in BagToSet(tasks) : task.step \in 1..numActions)
    /\ [][emitted' # <<>> =>
              LET settled == IF emitted'[1].ev = "settle" THEN 1 ELSE 0
                  continued == { k \in Starts(emitted') : StartsNextAction(emitted', k) }
              IN /\ Cardinality(continued) <= settled
                 /\ BagCardinality(tasks') =
                        BagCardinality(tasks) - settled + Cardinality(Starts(emitted'))
                 /\ settled = 1 =>
                        \E task \in BagToSet(tasks) :
                            /\ task.path = emitted'[1].path
                            /\ task.step = emitted'[1].i]_vars

\* C32: the start() of the first action of a job settled and the second action
\* was started for it, while another job is outstanding at its first action.
C32_Witness ==
    /\ TriggeredBy("settle")
    /\ emitted[1].i = 1
    /\ Len(emitted) >= 2
    /\ StartsNextAction(emitted, 2)
    /\ \E task \in BagToSet(tasks) : task.step = 1

\* the names a plugin has registered, none if the plugin is not known
RegisteredBy(objects, plugin) ==
    IF plugin \in DOMAIN objects THEN objects[plugin].registeredJobActions ELSE {}

\* C33: the registrations of a step in which an initializer runs go to the
\* plugin that is initialized and to no other, in its action map and in the
\* name index; and a registration that arrives while no initializer executes
\* raises an error and changes no action map and not the name index.
C33_RegistrationOnlyInsideInitializer ==
    [][/\ (emitted' # <<>> /\ emitted'[1].ev = "initializePlugin") =>
              /\ \A plugin \in DOMAIN pluginObjects' :
                     plugin # emitted'[1].plugin =>
                         RegisteredBy(pluginObjects', plugin)
                             = RegisteredBy(pluginObjects, plugin)
              /\ \A name \in JobActionNames :
                     LET before == pluginManager.jobActionToPluginMap[name]
                         after == pluginManager'.jobActionToPluginMap[name]
                     IN /\ Len(after) >= Len(before)
                        /\ SubSeq(after, 1, Len(before)) = before
                        /\ \A k \in (Len(before) + 1)..Len(after) :
                               after[k] = emitted'[1].plugin
       /\ (emitted' # <<>> /\ emitted'[1].ev = "registerJobAction") =>
              /\ emitted'[1].result = "raised"
              /\ pluginObjects' = pluginObjects
              /\ pluginManager'.jobActionToPluginMap = pluginManager.jobActionToPluginMap]_vars

\* the registrations of the step that declared another plugin than the one
\* whose initializer made them
Misdeclared ==
    { call \in { emitted[1].calls[k] : k \in DOMAIN emitted[1].calls } :
          call.pluginIdentifier \notin {Undefined, emitted[1].plugin} }

\* C34: when an initializer that returned has registered a name under another
\* plugin identifier than its own, the name is in the action map of the plugin
\* that was initialized, and the lookup of `<declared identifier>.<name>` gives
\* that plugin.
C34_MisdeclaredIdentifierResolves ==
    (TriggeredBy("initializePlugin") /\ emitted[1].result = "initialized") =>
        \A call \in Misdeclared :
            /\ call.name \in pluginObjects[emitted[1].plugin].registeredJobActions
            /\ getPluginForJobAction(CurPlugins,
                                     Qualified(call.pluginIdentifier, call.name))
                   = Resolved(emitted[1].plugin)

\* the places of a step's trace where next() admits a job
Admissions(trace) == { k \in DOMAIN trace : trace[k].ev = "admit" }

\* C35: next() ends in every step.  An admission takes its key out of the
\* pending table before the job is registered, no key is admitted twice in a
\* step, and a step admits no more jobs than were pending plus the one its
\* event may insert; when the step is over, next() has stopped for one of its
\* two reasons: nothing is pending, with the slots that are left staying idle,
\* or the cap is reached.  With no job action every admitted job is published
\* inside its admission and both tables are empty afterwards.
C35_NextTerminates ==
    /\ [](/\ \A k \in Admissions(emitted) :
                 /\ ~emitted[k].schedPending
                 /\ emitted[k].schedActive
                 /\ \A j \in Admissions(emitted) : j # k => emitted[j].path # emitted[k].path
          /\ jobs = <<>> \/ Cardinality(DOMAIN activeJobs) >= instances
          /\ numActions = 0 => (jobs = <<>> /\ activeJobs = EmptyMap))
    /\ [][Cardinality(Admissions(emitted')) <= Len(jobs) + 1]_vars

\* C35: with two slots and no job action the one pending job is admitted and
\* published inside its admission; next() ends with nothing pending and both
\* slots idle.
C35_Witness ==
    /\ instances = 2
    /\ numActions = 0
    /\ TriggeredBy("REGISTER_MEDIA")
    /\ \E k \in Admissions(emitted) :
           \E j \in (k + 1)..Len(emitted) :
               emitted[j].ev = "PUBLISH_JOB" /\ emitted[j].path = emitted[k].path
    /\ jobs = <<>>
    /\ activeJobs = EmptyMap

\* the smallest integer suffix i >= 1 for which <name>-<i> does not exist
SmallestFree(existing) ==
    CHOOSE i \in 1..(Cardinality(existing) + 1) :
        i \notin existing /\ \A j \in 1..(i - 1) : j \in existing

\* C36: the first destination request of a Job terminates and returns the path
\* with the smallest integer suffix i >= 1 that does not exist on disk,
\* whatever finite set of files exists, the file with suffix 1 included.
C36_FirstDestinationIsSmallestFree ==
    (TriggeredBy("getDestPath") /\ emitted[1].first)
        => /\ ~emitted[1].thrown
           /\ emitted[1].path # <<>>
           /\ emitted[1].path[1].dest.i = SmallestFree(emitted[1].existing)

\* C40: a destination requested with an extension is the allocated base path,
\* a single dot and the extension without its leading dots, so that `.mkv`
\* and `mkv` give the same path.
C40_ExtensionLeadingDotsStripped ==
    (TriggeredBy("getDestPath") /\ ~emitted[1].thrown /\ emitted[1].ext # <<>>)
        => /\ emitted[1].path[1].dest = destJob[1].job.tempDestPath[1]
           /\ emitted[1].path[1].rest = <<".">> \o StripLeadingDots(emitted[1].ext)

\* C37: whenever no bus handler is executing, the active table of the
\* scheduler and the active table of the runner hold the same source paths,
\* after any sequence of media events and of registerJob, unregisterJob and
\* publishJob calls made through the host API.
C37_ActiveTablesAgree == DOMAIN activeJobs = DOMAIN serverActiveJobs

\* the source paths the events are about
SourcePaths == {join(l, m) : l \in LibraryPaths, m \in MediaPaths}

\* the invocations of the REGISTER_JOB handler that are suspended for a path
Suspended(bag, path) == CopiesIn(path, BagOfAll(LAMBDA task : task.path, bag))

\* the positions of the trace at which REGISTER_JOB was published for a path
Registers(trace, path) ==
    {k \in 1..Len(trace) : trace[k].ev = "REGISTER_JOB" /\ trace[k].path = path}

\* the positions at which the runner published PUBLISH_JOB for a path
RunnerPublishes(trace, path) ==
    {k \in 1..Len(trace) :
        trace[k].ev = "PUBLISH_JOB" /\ trace[k].path = path /\ trace[k].source # Undefined}

\* the positions at which an invocation of the REGISTER_JOB handler returned
Returns(trace, path) ==
    {k \in 1..Len(trace) : trace[k].ev = "return" /\ trace[k].path = path}

\* C39: each REGISTER_JOB begins one invocation of the runner for its path, an
\* invocation returns once and publishes PUBLISH_JOB for its path at most once,
\* when it returns; the runner publishes PUBLISH_JOB for a path only from an
\* invocation begun by a REGISTER_JOB for that path, in the same step or
\* suspended since.
C39_OnePublishPerRegisterJob ==
    /\ [](\A path \in SourcePaths :
             /\ Cardinality(RunnerPublishes(emitted, path)) =
                    Cardinality({k \in Returns(emitted, path) :
                                     emitted[k].what = "published"})
             /\ \A k \in RunnerPublishes(emitted, path) :
                    \/ \E r \in Registers(emitted, path) : r < k
                    \/ emitted[1].ev = "settle" /\ emitted[1].path = path)
    /\ [][emitted' # <<>> =>
              \A path \in SourcePaths :
                  LET settled == IF emitted'[1].ev = "settle" /\ emitted'[1].path = path
                                 THEN 1 ELSE 0
                      begun == Cardinality(Registers(emitted', path))
                      returned == Cardinality(Returns(emitted', path))
                  IN /\ settled <= Suspended(tasks, path)
                     /\ Suspended(tasks', path) = Suspended(tasks, path) + begun - returned
                     /\ Cardinality(RunnerPublishes(emitted', path)) <= begun + settled]_vars

\* C39: the start() of a job settled, its runner published the job, and the
\* scheduler registered the next job in the same step, whose runner is
\* suspended.
C39_Witness ==
    /\ TriggeredBy("settle")
    /\ RunnerPublishes(emitted, emitted[1].path) # {}
    /\ \E path \in SourcePaths : Registers(emitted, path) # {}
    /\ tasks # EmptyBag

\* the positions of the trace at which a media event put a key into the
\* pending table
Enqueues(trace) ==
    {k \in 1..Len(trace) : trace[k].ev \in {"REGISTER_MEDIA", "UPDATE_MEDIA"}}

\* the pending table and the active table of the scheduler are empty
Idle == jobs = <<>> /\ activeJobs = EmptyMap

\* C38: when nothing outside the system changes the library after the media
\* file was reported, the replacement of the source file by the runner makes
\* no key enter the pending table again, and once the job is published and the
\* tables of the scheduler are empty they stay empty.
C38_ReplacementEnqueuesNothing ==
    /\ []((TriggeredBy("settle") \/ TriggeredBy("getInfo")) => Enqueues(emitted) = {})
    /\ [][Idle => Idle']_vars

====
